---- MODULE Spec2Model ----
(***************************************************************************)
(* Verification model of apigen (ars02bahadr/NodeCli): the framework       *)
(* detector, the extractors and the orchestration around them.             *)
(*                                                                         *)
(* The module holds several specifications, one per part of the program:   *)
(*   SpecNormalize  BaseExtractor.normalizePath on bounded paths           *)
(*   SpecRoute      routeToEndpoint of the ASP.NET and FastAPI extractors  *)
(*   SpecConvert    OpenApiExtractor.createEndpoint / convertParameter     *)
(*   SpecExtract    extract() of the FastAPI and OpenAPI extractors        *)
(*   SpecDetect     ProjectDetector.detect, one strategy per step          *)
(*   SpecGenerate   Orchestrator.handleGenerate with ProjectDetector       *)
(*   SpecWatch      Orchestrator.handleWatch (debounce timer and runs)     *)
(* Every specification leaves the variables of the other parts at their    *)
(* idle value.                                                             *)
(*                                                                         *)
(* Paths are sequences of tokens. A token is "/" or a non-empty piece of   *)
(* text without "/": a literal such as "a" or a whole placeholder such as  *)
(* "{id}". normalizePath only looks at "/" characters and                  *)
(* extractPathParams only at whole {...} placeholders, so the tokens keep  *)
(* exactly what the two functions can see.                                 *)
(***************************************************************************)
EXTENDS Integers, Sequences, FiniteSets, TLC

VARIABLES
    \* SpecNormalize
    rawPath,        \* argument of normalizePath
    normPath,       \* its return value
    npc,            \* "raw" before the call, "done" after
    \* SpecRoute
    rtExtractor,    \* "aspnet" or "fastapi": whose routeToEndpoint is called
    rtRoute,        \* the ExtractedRoute handed to routeToEndpoint
    rtModels,       \* FastApiExtractor.models (names of the Pydantic models)
    rtRouters,      \* FastApiExtractor.routers (router name -> prefix)
    rtEndpoint,     \* the ApiEndpoint returned, NoEndpoint before the call
    \* SpecConvert
    cvPath,         \* createEndpoint(path, method, operation, pathParams)
    cvMethod,
    cvOperation,
    cvPathParams,
    cvEndpoint,     \* the ApiEndpoint returned, NoEndpoint before the call
    \* SpecExtract
    exExtractor,    \* "fastapi" or "openapi": whose extract is called
    exFiles,        \* the *.py files of the source directory, in glob order
    exDoc,          \* the OpenAPI document behind the source path
    exResult,       \* the ExtractorResult returned, NoResult before the call
    exInstance,     \* the extractor object's fields this.models and this.routers
    exBefore,       \* exInstance as the latest call of extract found it
    exCalls,        \* how many times extract was called on the object
    exConfig,       \* the ApigenConfig handed to extract: its auth
    \* SpecDetect
    dtDir,          \* what the project directory holds, as the detector sees it
    dtPc,           \* the position of detect(): which strategy runs next
    dtResults,      \* the local array `results` of detect()
    dtResult,       \* the DetectionResult returned, NoDetection before the return
    \* SpecGenerate and SpecWatch
    gnCommand,      \* the command given to run(): "generate" or "watch"
    gnOptions,      \* the options of the command line
    gnLoaded,       \* what ConfigLoader.load() returns
    gnDir,          \* the working directory, as the detector sees it
    gnExtraction,   \* what extract() makes of the source as it is now
    config,         \* Orchestrator.config
    runs,           \* the calls of handleGenerate so far, each with its position
    alive,          \* FALSE once process.exit was called
    wtWatching,     \* the chokidar watcher and its handlers are registered
    debounceTimer,  \* "null", "pending", or "fired" (set, never reset to null)
    wtEvents,       \* the number of file events so far
    wtTimers,       \* the timers set and neither fired nor cleared: ticks left
    wtSince,        \* clock ticks since the latest file event, up to DebounceTicks
    wtBursts        \* the number of bursts of file events so far

normVars == <<rawPath, normPath, npc>>
routeVars == <<rtExtractor, rtRoute, rtModels, rtRouters, rtEndpoint>>
convertVars == <<cvPath, cvMethod, cvOperation, cvPathParams, cvEndpoint>>
extractVars ==
    <<exExtractor, exFiles, exDoc, exResult, exInstance, exBefore, exCalls, exConfig>>
detectVars == <<dtDir, dtPc, dtResults, dtResult>>
cliVars == <<gnCommand, gnOptions, gnLoaded, gnDir, gnExtraction, config, runs,
             alive, wtWatching, debounceTimer, wtEvents, wtTimers, wtSince,
             wtBursts>>

vars == <<normVars, routeVars, convertVars, extractVars, detectVars, cliVars>>

----------------------------------------------------------------------------
(* Bounds *)

\* longest path handed to normalizePath, in tokens
MaxPathLen == 5

\* most segments of a route path, and most parameters of a handler
MaxSegments == 2
MaxParams == 2

\* most operation-level parameters of an OpenAPI operation
MaxOpParams == 2

\* most source files of a directory, most routes of one file, most path
\* items of an OpenAPI document
MaxFiles == 2
MaxRoutes == 1
MaxPaths == 2

\* longest key of an operation's `responses` object, in characters, and most
\* keys of one `responses` object
MaxKeyLen == 3
MaxResponses == 2

\* most entries of components.securitySchemes
MaxSchemes == 2

\* most *.py files the detector reads, most route decorators of one file
MaxPyFiles == 2
MaxDecorators == 30

\* most file events of one watch session; the 500 ms of the debounce timer
\* in ticks of the clock
MaxEvents == 2
DebounceTicks == 2

\* most files of a directory an extractor object is called on repeatedly, most
\* calls of extract on one object
MaxReuseFiles == 1
MaxCalls == 3

----------------------------------------------------------------------------
(* Sequences *)

\* all sequences over S of length at most n
SeqsUpTo(S, n) == UNION { [1..k -> S] : k \in 0..n }

----------------------------------------------------------------------------
(* BaseExtractor helpers: src/src/extractors/base.ts *)

SLASH == "/"

\* String.prototype.replace(/\/+/g, '/'): every run of "/" becomes one "/"
RECURSIVE collapseSlashes(_)
collapseSlashes(p) ==
    IF Len(p) <= 1 THEN p
    ELSE IF p[1] = SLASH /\ p[2] = SLASH THEN collapseSlashes(Tail(p))
    ELSE <<p[1]>> \o collapseSlashes(Tail(p))

\* BaseExtractor.normalizePath
normalizePath(path) ==
    LET withLead == IF Len(path) > 0 /\ path[1] = SLASH
                    THEN path ELSE <<SLASH>> \o path
        noTrail  == IF Len(withLead) > 1 /\ withLead[Len(withLead)] = SLASH
                    THEN SubSeq(withLead, 1, Len(withLead) - 1)
                    ELSE withLead
    IN collapseSlashes(noTrail)

\* the {name} placeholder tokens and the name inside the braces
PlaceholderName == [t \in {"{id}", "{q}"} |-> IF t = "{id}" THEN "id" ELSE "q"]

IsPlaceholder(tok) == tok \in DOMAIN PlaceholderName

\* BaseExtractor.extractPathParams: the names of the placeholders, in order
RECURSIVE extractPathParams(_)
extractPathParams(path) ==
    IF path = <<>> THEN <<>>
    ELSE IF IsPlaceholder(Head(path))
         THEN <<PlaceholderName[Head(path)]>> \o extractPathParams(Tail(path))
         ELSE extractPathParams(Tail(path))

----------------------------------------------------------------------------
(* ASP.NET Core extractor: src/src/extractors/python/flask.ts 1089-1716 *)

\* the C# type names a handler parameter has in the model: one that is a key
\* of CSHARP_TYPE_MAP and one that is not
CSHARP_TYPE_MAP == [t \in {"int"} |-> "integer"]

\* AspNetExtractor.csharpTypeToSchemaType
csharpTypeToSchemaType(csharpType) ==
    IF csharpType \in DOMAIN CSHARP_TYPE_MAP THEN CSHARP_TYPE_MAP[csharpType]
    ELSE "string"

HasName(parameters, name) == \E i \in 1..Len(parameters) : parameters[i].name = name

AspNetParam(p, location) ==
    [name |-> p.name, in |-> location, required |-> (location = "path"),
     schema |-> csharpTypeToSchemaType(p.type)]

\* the attribute-less scan of parseMethodParams: simpleParamRegex matches
\* "type name" only when "=", "," or ")" follows the name. methodParams is the
\* text between the parentheses of METHOD_DEF_REGEX, so ")" never follows:
\* a parameter is matched when it has a default value or is not the last one.
\* The lookbehind does not keep attributed parameters out (a space follows
\* the attribute), the name check does.
RECURSIVE simpleParams(_, _, _)
simpleParams(params, i, parameters) ==
    IF i > Len(params) THEN parameters
    ELSE LET p == params[i]
             matched == p.hasDefault \/ i < Len(params)
         IN IF matched /\ ~HasName(parameters, p.name)
               /\ p.type \in DOMAIN CSHARP_TYPE_MAP
            THEN simpleParams(params, i + 1,
                              Append(parameters, AspNetParam(p, "query")))
            ELSE simpleParams(params, i + 1, parameters)

IsFromRoute(p) == p.attr = "FromRoute"
IsFromQuery(p) == p.attr = "FromQuery"
IsFromBody(p) == p.attr = "FromBody"

\* AspNetExtractor.parseMethodParams: the parameters it pushes
parseMethodParams(params) ==
    LET fromRoute == SelectSeq(params, IsFromRoute)
        fromQuery == SelectSeq(params, IsFromQuery)
        attributed == [i \in 1..Len(fromRoute) |-> AspNetParam(fromRoute[i], "path")]
                      \o [i \in 1..Len(fromQuery) |-> AspNetParam(fromQuery[i], "query")]
    IN simpleParams(params, 1, attributed)

\* the onRequestBody callback of parseMethodParams: the type of the first
\* [FromBody] parameter
aspNetRequestBody(params) ==
    LET fromBody == SelectSeq(params, IsFromBody)
    IN IF fromBody = <<>> THEN "none" ELSE fromBody[1].type

\* the loop of routeToEndpoint that adds a path parameter for every
\* placeholder no parameter is named after
RECURSIVE addMissingPathParams(_, _)
addMissingPathParams(pathParams, parameters) ==
    IF pathParams = <<>> THEN parameters
    ELSE addMissingPathParams(Tail(pathParams),
            IF HasName(parameters, Head(pathParams)) THEN parameters
            ELSE Append(parameters,
                        [name |-> Head(pathParams), in |-> "path",
                         required |-> TRUE, schema |-> "string"]))

\* AspNetExtractor.routeToEndpoint
aspNetRouteToEndpoint(route) ==
    [method |-> route.method,
     path |-> normalizePath(route.path),
     parameters |-> addMissingPathParams(extractPathParams(route.path),
                                         parseMethodParams(route.params)),
     requestBody |-> aspNetRequestBody(route.params)]

----------------------------------------------------------------------------
(* FastAPI extractor: src/src/extractors/python/fastapi.ts *)

TYPE_PATTERNS == [t \in {"int"} |-> "integer"]

\* FastApiExtractor.pythonTypeToSchemaType
pythonTypeToSchemaType(pythonType) ==
    IF pythonType \in DOMAIN TYPE_PATTERNS THEN TYPE_PATTERNS[pythonType]
    ELSE "string"

\* funcParams.find(p => p.name === name): the matches, the first one is taken
FindParam(funcParams, name) == SelectSeq(funcParams, LAMBDA p : p.name = name)

\* routeToEndpoint, the path parameters: one per placeholder, typed after the
\* handler parameter of the same name when there is one
fastApiPathParameters(pathParams, funcParams) ==
    [i \in 1..Len(pathParams) |->
        LET funcParam == FindParam(funcParams, pathParams[i])
        IN [name |-> pathParams[i], in |-> "path", required |-> TRUE,
            schema |-> IF funcParam = <<>> THEN "string"
                       ELSE pythonTypeToSchemaType(funcParam[1].type)]]

InSeq(x, s) == \E i \in 1..Len(s) : s[i] = x

\* routeToEndpoint, the query parameters
fastApiQueryParameters(pathParams, funcParams, models) ==
    LET isQuery(p) == /\ ~InSeq(p.name, pathParams)
                      /\ p.name \notin {"request", "db", "session"}
                      /\ p.type \notin models
        kept == SelectSeq(funcParams, isQuery)
    IN [i \in 1..Len(kept) |->
          [name |-> kept[i].name, in |-> "query",
           required |-> ~kept[i].hasDefault,
           schema |-> pythonTypeToSchemaType(kept[i].type)]]

\* routeToEndpoint, the request body: the first handler parameter whose type
\* is a discovered model, for POST, PUT and PATCH only
fastApiRequestBody(method, funcParams, models) ==
    LET body == SelectSeq(funcParams, LAMBDA p : p.type \in models)
    IN IF body # <<>> /\ method \in {"POST", "PUT", "PATCH"}
       THEN body[1].type ELSE "none"

\* FastApiExtractor.routeToEndpoint
fastApiRouteToEndpoint(route, routers, models) ==
    LET fullPath == IF route.routerName \in DOMAIN routers
                       /\ routers[route.routerName] # <<>>
                    THEN routers[route.routerName] \o route.path
                    ELSE route.path
        pathParams == extractPathParams(fullPath)
    IN [method |-> route.method,
        path |-> normalizePath(fullPath),
        parameters |-> fastApiPathParameters(pathParams, route.params)
                       \o fastApiQueryParameters(pathParams, route.params, models),
        requestBody |-> fastApiRequestBody(route.method, route.params, models)]

----------------------------------------------------------------------------
(* OpenAPI extractor: src/src/extractors/openapi.ts *)

\* String.prototype.toLowerCase on the location names of the model
toLowerCase(str) == IF str = "Header" THEN "header" ELSE str

\* BaseExtractor.parseParameterLocation: the table, and PATH for every
\* string that is not in it
parseParameterLocation(location) ==
    LET lower == toLowerCase(location)
    IN IF lower \in {"path", "query", "header", "cookie"} THEN lower ELSE "path"

\* OpenApiExtractor.convertParameter. param.required is "true", "false" or
\* "absent" (the key is missing); `param.required || false` is true only for
\* "true".
convertParameter(param) ==
    [name |-> param.name,
     in |-> parseParameterLocation(param.in),
     required |-> (param.required = "true"),
     schema |-> "string"]

\* A key of `responses` is the sequence of its characters.
DigitValue == [c \in {"0", "2", "4"} |-> IF c = "0" THEN 0 ELSE IF c = "2" THEN 2 ELSE 4]

IsDigit(c) == c \in DOMAIN DigitValue

\* the longest prefix of the string that consists of digits
RECURSIVE digitPrefix(_)
digitPrefix(str) ==
    IF str = <<>> \/ ~IsDigit(Head(str)) THEN <<>>
    ELSE <<Head(str)>> \o digitPrefix(Tail(str))

RECURSIVE digitsToNumber(_, _)
digitsToNumber(digits, n) ==
    IF digits = <<>> THEN n
    ELSE digitsToNumber(Tail(digits), 10 * n + DigitValue[Head(digits)])

\* parseInt(str, 10) on a string without leading blanks or sign: the number
\* written by the leading digits, whatever follows them, and NaN when the
\* string does not start with a digit
parseInt(str) ==
    IF digitPrefix(str) = <<>> THEN [isNaN |-> TRUE, value |-> 0]
    ELSE [isNaN |-> FALSE, value |-> digitsToNumber(digitPrefix(str), 0)]

isNaN(number) == number.isNaN

\* OpenApiExtractor.convertResponse
convertResponse(statusCode) ==
    [statusCode |-> IF isNaN(statusCode) THEN 200 ELSE statusCode.value]

\* A property key is an integer index when it is the canonical writing of a
\* non-negative integer: digits only, no leading zero.
IsIntegerIndex(key) ==
    /\ key # <<>>
    /\ \A i \in 1..Len(key) : IsDigit(key[i])
    /\ Len(key) = 1 \/ key[1] # "0"

RECURSIVE insertAscending(_, _)
insertAscending(key, sorted) ==
    IF sorted = <<>> THEN <<key>>
    ELSE IF digitsToNumber(key, 0) < digitsToNumber(Head(sorted), 0)
    THEN <<key>> \o sorted
    ELSE <<Head(sorted)>> \o insertAscending(key, Tail(sorted))

RECURSIVE sortAscending(_)
sortAscending(keys) ==
    IF keys = <<>> THEN <<>>
    ELSE insertAscending(Head(keys), sortAscending(Tail(keys)))

\* Object.entries: the integer indices in ascending order, then the other
\* keys in the order they were written
objectEntries(keys) ==
    sortAscending(SelectSeq(keys, IsIntegerIndex))
    \o SelectSeq(keys, LAMBDA k : ~IsIntegerIndex(k))

\* the operation-level parameters in place of the path-level ones
replaceParameters(pathParams, parameters) ==
    IF parameters # <<>> THEN parameters ELSE pathParams

\* [...pathParams, ...(operation.parameters || [])]
mergeParameters(pathParams, parameters) == pathParams \o parameters

\* OpenApiExtractor.createEndpoint
createEndpoint(path, method, operation, pathParams) ==
    LET allParams == mergeParameters(pathParams, operation.parameters)
        codes == objectEntries(operation.responses)
    IN [method |-> method,
        path |-> normalizePath(path),
        tags |-> operation.tags,
        parameters |-> [i \in 1..Len(allParams) |-> convertParameter(allParams[i])],
        requestBody |-> "none",
        responses |-> [i \in 1..Len(codes) |-> convertResponse(parseInt(codes[i]))]]

\* a path item has the keys of the seven methods and the key trace; a key
\* that is missing holds NoOperation
NoOperation == [present |-> FALSE, tags |-> <<>>, parameters |-> <<>>,
                responses |-> <<>>]

\* the local array `methods` of extractEndpoints: the key read from the path
\* item and the HttpMethod of the endpoint
METHODS ==
    << [key |-> "get", method |-> "GET"], [key |-> "post", method |-> "POST"],
       [key |-> "put", method |-> "PUT"], [key |-> "delete", method |-> "DELETE"],
       [key |-> "patch", method |-> "PATCH"],
       [key |-> "options", method |-> "OPTIONS"],
       [key |-> "head", method |-> "HEAD"] >>

\* the loop over `methods`: `if (!operation) continue;`, else one endpoint
RECURSIVE methodEndpoints(_, _)
methodEndpoints(pathItem, methods) ==
    IF methods = <<>> THEN <<>>
    ELSE (IF pathItem[Head(methods).key].present
          THEN <<createEndpoint(pathItem.path, Head(methods).method,
                                pathItem[Head(methods).key], pathItem.parameters)>>
          ELSE <<>>)
         \o methodEndpoints(pathItem, Tail(methods))

\* the loop cut short after the keys get and post
getAndPostEndpoints(pathItem) == methodEndpoints(pathItem, SubSeq(METHODS, 1, 2))

\* OpenApiExtractor.extractEndpoints: the operations of one path item, in
\* the order of the `methods` array
pathItemEndpoints(pathItem) == methodEndpoints(pathItem, METHODS)

\* OpenApiExtractor.extractEndpoints
RECURSIVE extractEndpoints(_)
extractEndpoints(paths) ==
    IF paths = <<>> THEN <<>>
    ELSE pathItemEndpoints(Head(paths)) \o extractEndpoints(Tail(paths))

\* Map.set(name, {endpoints: []}) on a Map kept as the sequence of its
\* entries in insertion order: a key that is present keeps its place
mapSetEmpty(groups, name) ==
    IF \E j \in 1..Len(groups) : groups[j].name = name
    THEN [j \in 1..Len(groups) |->
            IF groups[j].name = name THEN [name |-> name, endpoints |-> <<>>]
            ELSE groups[j]]
    ELSE Append(groups, [name |-> name, endpoints |-> <<>>])

\* map.set(name, [endpoint]): the entry of the key holds this endpoint alone
mapSetOne(groups, name, endpoint) ==
    IF \E j \in 1..Len(groups) : groups[j].name = name
    THEN [j \in 1..Len(groups) |->
            IF groups[j].name = name THEN [name |-> name, endpoints |-> <<endpoint>>]
            ELSE groups[j]]
    ELSE Append(groups, [name |-> name, endpoints |-> <<endpoint>>])

\* map.get(name).push(endpoint), after `if (!map.has(name)) map.set(name, [])`
mapPush(groups, name, endpoint) ==
    IF \E j \in 1..Len(groups) : groups[j].name = name
    THEN [j \in 1..Len(groups) |->
            IF groups[j].name = name
            THEN [name |-> name, endpoints |-> Append(groups[j].endpoints, endpoint)]
            ELSE groups[j]]
    ELSE Append(groups, [name |-> name, endpoints |-> <<endpoint>>])

RECURSIVE declareTags(_, _)
declareTags(tags, groups) ==
    IF tags = <<>> THEN groups
    ELSE declareTags(Tail(tags), mapSetEmpty(groups, Head(tags)))

\* `endpoint.tags?.[0] || 'default'`: 'default' when there is no first tag
\* and when the first tag is the empty string, which is falsy
tagNameOf(endpoint) ==
    IF endpoint.tags # <<>> /\ endpoint.tags[1] # "" THEN endpoint.tags[1]
    ELSE "default"

RECURSIVE distributeByTag(_, _)
distributeByTag(endpoints, groups) ==
    IF endpoints = <<>> THEN groups
    ELSE LET endpoint == Head(endpoints)
         IN distributeByTag(Tail(endpoints),
                            mapPush(groups, tagNameOf(endpoint), endpoint))

\* every entry of the tag map as a group, the empty ones too
groupsUnfiltered(endpoints, tags) ==
    distributeByTag(endpoints, mapSetEmpty(declareTags(tags, <<>>), "default"))

\* OpenApiExtractor.groupEndpointsByTag
groupEndpointsByTag(endpoints, tags) ==
    LET tagMap == mapSetEmpty(declareTags(tags, <<>>), "default")
    IN SelectSeq(distributeByTag(endpoints, tagMap),
                 LAMBDA g : Len(g.endpoints) > 0)

\* the sum over the groups in createSuccessResult
RECURSIVE countEndpoints(_)
countEndpoints(groups) ==
    IF groups = <<>> THEN 0
    ELSE Len(Head(groups).endpoints) + countEndpoints(Tail(groups))

\* BaseExtractor.createSuccessResult
createSuccessResult(groups, filesProcessed, warnings) ==
    [success |-> TRUE, hasProject |-> TRUE, groups |-> groups, errors |-> <<>>,
     warnings |-> warnings, filesProcessed |-> filesProcessed,
     endpointsFound |-> countEndpoints(groups)]

\* a result that reports success with a project of no groups, the messages
\* kept as warnings
createEmptyResult(errors) == createSuccessResult(<<>>, 0, errors)

\* BaseExtractor.createErrorResult
createErrorResult(errors) ==
    [success |-> FALSE, hasProject |-> FALSE, groups |-> <<>>, errors |-> errors,
     warnings |-> <<>>, filesProcessed |-> 0, endpointsFound |-> 0]

\* OpenApiExtractor.parseSpec: SwaggerParser.dereference, and in its catch
\* SwaggerParser.bundle; null when that throws too. `attempts` lists the
\* calls made, `dereferenced` tells whether every $ref was replaced by its
\* target: bundle leaves the $ref objects in place. Neither call validates
\* the document against the OpenAPI schema.
parseSpec(doc) ==
    IF doc.deref
    THEN [api |-> TRUE, dereferenced |-> TRUE, attempts |-> <<"dereference">>]
    ELSE [api |-> doc.bundle, dereferenced |-> FALSE,
          attempts |-> <<"dereference", "bundle">>]

\* Whether createEndpoint throws a TypeError on the operation:
\* Object.entries(operation.responses) when the operation has no responses,
\* body.content['application/json'] in convertRequestBody when requestBody is
\* a $ref object.
createEndpointThrows(operation, dereferenced) ==
    /\ operation.present
    /\ \/ ~operation.hasResponses
       \/ operation.requestBody = "ref" /\ ~dereferenced

extractEndpointsThrows(paths, dereferenced) ==
    \E i \in 1..Len(paths) :
        \E m \in 1..Len(METHODS) :
            createEndpointThrows(paths[i][METHODS[m].key], dereferenced)

\* no auth: `undefined`
NoAuth == [type |-> "none"]

\* a config without auth
NoConfig == [auth |-> NoAuth]

\* BaseExtractor.createEmptyProject: the auth of the new project
createEmptyProjectAuth(cfg) == cfg.auth

\* What one security scheme makes extractAuthFromSecuritySchemes return,
\* NoAuth when the loop goes on. `keyName` of a scheme is its `name` field,
\* "" when it has none.
schemeAuth(scheme) ==
    IF scheme.type = "http" /\ scheme.scheme = "bearer"
    THEN [type |-> "bearer", tokenPlaceholder |-> "{{token}}"]
    ELSE IF scheme.type = "apiKey"
    THEN [type |-> "apiKey",
          keyName |-> IF scheme.keyName # "" THEN scheme.keyName ELSE "X-API-Key",
          keyLocation |-> IF scheme.in = "query" THEN "query" ELSE "header",
          tokenPlaceholder |-> "{{apiKey}}"]
    ELSE IF scheme.type = "http" /\ scheme.scheme = "basic"
    THEN [type |-> "basic", tokenPlaceholder |-> "{{basicAuth}}"]
    ELSE NoAuth

\* Object.entries(schemes): the schemes in the order of objectEntries of
\* their names. `schemes` holds the entries as the document declares them.
schemeEntries(schemes) ==
    LET names == objectEntries([i \in 1..Len(schemes) |-> schemes[i].name])
    IN [i \in 1..Len(names) |->
          schemes[CHOOSE j \in 1..Len(schemes) : schemes[j].name = names[i]]]

\* the loop of extractAuthFromSecuritySchemes over the entries
RECURSIVE firstSchemeAuth(_)
firstSchemeAuth(entries) ==
    IF entries = <<>> THEN NoAuth
    ELSE IF schemeAuth(Head(entries)) # NoAuth THEN schemeAuth(Head(entries))
    ELSE firstSchemeAuth(Tail(entries))

\* OpenApiExtractor.extractAuthFromSecuritySchemes
extractAuthFromSecuritySchemes(schemes) == firstSchemeAuth(schemeEntries(schemes))

\* project.auth at the end of extract
projectAuth(doc, cfg) ==
    IF extractAuthFromSecuritySchemes(doc.securitySchemes) # NoAuth
    THEN extractAuthFromSecuritySchemes(doc.securitySchemes)
    ELSE createEmptyProjectAuth(cfg)

\* OpenApiExtractor.extract. The catch around the body turns an exception of
\* extractEndpoints into an error result.
openApiExtract(doc, cfg) ==
    IF ~parseSpec(doc).api
    THEN createErrorResult(<<"OpenAPI spec dosyasi parse edilemedi">>)
    ELSE IF extractEndpointsThrows(doc.paths, parseSpec(doc).dereferenced)
    THEN createErrorResult(<<"OpenAPI parse hatasi">>)
    ELSE [auth |-> projectAuth(doc, cfg)]
         @@ createSuccessResult(
                groupEndpointsByTag(extractEndpoints(doc.paths), doc.tags), 1, <<>>)

----------------------------------------------------------------------------
(* FastAPI extractor, extract(): src/src/extractors/python/fastapi.ts *)

\* extractRouterDefinitions over the files in order: routers.set(name, ...)
RECURSIVE collectRouters(_, _)
collectRouters(defs, routers) ==
    IF defs = <<>> THEN routers
    ELSE collectRouters(Tail(defs),
            [n \in DOMAIN routers \cup {Head(defs).name} |->
                IF n = Head(defs).name THEN Head(defs).prefix ELSE routers[n]])

RECURSIVE scanRouters(_, _)
scanRouters(files, routers) ==
    IF files = <<>> THEN routers
    ELSE scanRouters(Tail(files), collectRouters(Head(files).routers, routers))

\* extractPydanticModels over the files: the keys of this.models
scanModels(files) == UNION { files[i].models : i \in 1..Len(files) }

\* extractRoutes over the files in order; each route carries its filePath
RECURSIVE scanRoutes(_)
scanRoutes(files) ==
    IF files = <<>> THEN <<>>
    ELSE [i \in 1..Len(Head(files).routes) |->
            [method |-> Head(files).routes[i].method,
             path |-> Head(files).routes[i].path,
             routerName |-> Head(files).routes[i].routerName,
             params |-> Head(files).routes[i].params,
             filePath |-> Head(files).name]]
         \o scanRoutes(Tail(files))

\* FastApiExtractor.formatGroupName on the file names of the model
formatGroupName(fileName) ==
    IF fileName = "users" THEN "Users"
    ELSE IF fileName = "main" THEN "Main" ELSE fileName

fileGroupName(fileName) ==
    IF fileName = "main" THEN "Default" ELSE formatGroupName(fileName)

\* FastApiExtractor.groupEndpointsByFile
RECURSIVE groupEndpointsByFile(_, _, _)
groupEndpointsByFile(endpoints, routes, groups) ==
    IF endpoints = <<>> THEN groups
    ELSE groupEndpointsByFile(Tail(endpoints), Tail(routes),
            mapPush(groups, fileGroupName(Head(routes).filePath), Head(endpoints)))

FASTAPI_WARNING == "FastAPI extractor experimental"

\* The fields of a FastApiExtractor after construction: two empty Maps.
FreshInstance == [models |-> {}, routers |-> <<>>]

\* An extract that starts from the Maps as the previous call left them.
keepInstance(instance) == instance

\* The first statements of extract: this.models.clear(); this.routers.clear()
clearInstance(instance) == [models |-> {}, routers |-> <<>>]

\* The files the scanning loop reads before readFileSync throws.
RECURSIVE readablePrefix(_)
readablePrefix(files) ==
    IF files = <<>> \/ ~Head(files).readable THEN <<>>
    ELSE <<Head(files)>> \o readablePrefix(Tail(files))

\* The fields of the extractor object when extract returns: cleared at entry,
\* then filled by extractRouterDefinitions and extractPydanticModels for every
\* file the loop got to.
instanceAfterExtract(instance, files) ==
    LET cleared == clearInstance(instance)
        scanned == readablePrefix(files)
    IN [models |-> cleared.models \cup scanModels(scanned),
        routers |-> scanRouters(scanned, cleared.routers)]

\* allRoutes.map(route => this.routeToEndpoint(route)), once every file is
\* scanned
fastApiEndpoints(instance, files) ==
    LET routers == instanceAfterExtract(instance, files).routers
        models == instanceAfterExtract(instance, files).models
        allRoutes == scanRoutes(files)
    IN [i \in 1..Len(allRoutes) |->
            fastApiRouteToEndpoint(allRoutes[i], routers, models)]

\* FastApiExtractor.extract on an extractor object whose fields are `instance`.
\* fs.readFileSync throws on a file that cannot be read (removed since the glob,
\* no permission, a directory named *.py); the loop has no try of its own, so
\* the catch around the whole body answers.
fastApiExtractOn(instance, files) ==
    IF files = <<>> THEN createErrorResult(<<"Python dosyasi bulunamadi">>)
    ELSE IF \E i \in 1..Len(files) : ~files[i].readable
    THEN createErrorResult(<<"FastAPI parse hatasi">>)
    ELSE LET allRoutes == scanRoutes(files)
             endpoints == fastApiEndpoints(instance, files)
         IN IF allRoutes = <<>>
            THEN createErrorResult(<<"FastAPI route bulunamadi", "Ipucu: decorator">>)
            ELSE createSuccessResult(groupEndpointsByFile(endpoints, allRoutes, <<>>),
                                     Len(files), <<FASTAPI_WARNING>>)

\* extract on a newly constructed FastApiExtractor
fastApiExtract(files) == fastApiExtractOn(FreshInstance, files)

----------------------------------------------------------------------------
(* Django REST extractor: src/unnamed/part_000 *)

\* VIEWSET_ACTIONS['ModelViewSet']: list, create, retrieve, update,
\* partial_update, destroy
VIEWSET_ACTIONS ==
    << [method |-> "GET", pathSuffix |-> <<>>],
       [method |-> "POST", pathSuffix |-> <<>>],
       [method |-> "GET", pathSuffix |-> <<SLASH, "{id}">>],
       [method |-> "PUT", pathSuffix |-> <<SLASH, "{id}">>],
       [method |-> "PATCH", pathSuffix |-> <<SLASH, "{id}">>],
       [method |-> "DELETE", pathSuffix |-> <<SLASH, "{id}">>] >>

\* the base classes VIEWSET_CLASS_REGEX matches, as the only base of a class
VIEWSET_BASES == {"ModelViewSet", "ViewSet", "GenericViewSet", "ReadOnlyModelViewSet"}

\* extractViewSetDefinitions over the files: the keys of this.viewSets
extractViewSetDefinitions(files) ==
    UNION { { files[i].classes[k].name :
                k \in { c \in 1..Len(files[i].classes) :
                          files[i].classes[c].base \in VIEWSET_BASES } } :
            i \in 1..Len(files) }

\* this.routerRegistrations.set(viewSetName, urlPrefix): a Map from the class
\* name, kept as the sequence of its entries in insertion order
RECURSIVE setRegistrations(_, _)
setRegistrations(regs, map) ==
    IF regs = <<>> THEN map
    ELSE LET reg == Head(regs)
         IN setRegistrations(Tail(regs),
                IF \E j \in 1..Len(map) : map[j].viewSet = reg.viewSet
                THEN [j \in 1..Len(map) |->
                        IF map[j].viewSet = reg.viewSet THEN reg ELSE map[j]]
                ELSE Append(map, reg))

\* extractRouterRegistrations over the files in order
RECURSIVE extractRouterRegistrations(_, _)
extractRouterRegistrations(files, map) ==
    IF files = <<>> THEN map
    ELSE extractRouterRegistrations(Tail(files),
            setRegistrations(Head(files).registrations, map))

\* DjangoRestExtractor.generateViewSetRoutes
RECURSIVE generateViewSetRoutes(_, _)
generateViewSetRoutes(registrations, viewSets) ==
    IF registrations = <<>> THEN <<>>
    ELSE LET reg == Head(registrations)
         IN (IF reg.viewSet \notin viewSets THEN <<>>
             ELSE [a \in 1..Len(VIEWSET_ACTIONS) |->
                     [method |-> VIEWSET_ACTIONS[a].method,
                      path |-> <<SLASH, "api", SLASH, reg.urlPrefix>>
                               \o VIEWSET_ACTIONS[a].pathSuffix,
                      viewName |-> reg.viewSet]])
            \o generateViewSetRoutes(Tail(registrations), viewSets)

\* extractRoutes over the files in order: the @api_view and path() routes
RECURSIVE djangoScanRoutes(_)
djangoScanRoutes(files) ==
    IF files = <<>> THEN <<>>
    ELSE Head(files).routes \o djangoScanRoutes(Tail(files))

\* route.viewName.replace(/ViewSet$/, '').replace(/View$/, '') on the names
\* of the model
viewGroupName(viewName) ==
    IF viewName = "UserViewSet" THEN "User"
    ELSE IF viewName = "OrderViewSet" THEN "Order" ELSE viewName

\* DjangoRestExtractor.groupEndpointsByView over routeToEndpoint of each route
RECURSIVE groupEndpointsByView(_, _)
groupEndpointsByView(routes, groups) ==
    IF routes = <<>> THEN groups
    ELSE groupEndpointsByView(Tail(routes),
            mapPush(groups, viewGroupName(Head(routes).viewName),
                    [method |-> Head(routes).method,
                     path |-> normalizePath(Head(routes).path)]))

\* DjangoRestExtractor.extract, every file readable
djangoExtract(files) ==
    IF files = <<>> THEN createErrorResult(<<"Python dosyasi bulunamadi">>)
    ELSE LET allRoutes ==
                 djangoScanRoutes(files)
                 \o generateViewSetRoutes(extractRouterRegistrations(files, <<>>),
                                          extractViewSetDefinitions(files))
         IN IF allRoutes = <<>>
            THEN createErrorResult(<<"Django REST Framework endpoint bulunamadi",
                                     "Ipucu: pattern">>)
            ELSE createSuccessResult(groupEndpointsByView(allRoutes, <<>>), Len(files),
                                     <<"DjangoRestExtractor experimental">>)

----------------------------------------------------------------------------
(* ProjectDetector: src/src/core/orchestrator.ts *)

\* enum ProjectType. DJANGO_REST is not a member of the enum: the expression
\* ProjectType.DJANGO_REST evaluates to undefined.
OPENAPI == "openapi"
FASTAPI == "fastapi"
FLASK == "flask"
SPRING_BOOT == "spring-boot"
ASPNET_CORE == "aspnet-core"
UNKNOWN == "unknown"
DJANGO_REST == "undefined"

DETECTION_SCORES ==
    [PROJECT_FILE |-> 20, FRAMEWORK_FILE |-> 40, CODE_PATTERN |-> 60,
     MULTIPLE_ENDPOINTS |-> 80, OPENAPI_SPEC |-> 100]

MIN_CONFIDENCE_THRESHOLD == 30

min(a, b) == IF a < b THEN a ELSE b

RECURSIVE sumSeq(_)
sumSeq(s) == IF s = <<>> THEN 0 ELSE Head(s) + sumSeq(Tail(s))

score(flag, points) == IF flag THEN points ELSE 0

\* endpointCount matches at perMatch points each, with no ceiling
uncappedBonus(endpointCount, perMatch) == endpointCount * perMatch

\* `if (endpointCount > 0) score += Math.min(MULTIPLE_ENDPOINTS, endpointCount * k)`
endpointBonus(endpointCount, perMatch) ==
    IF endpointCount > 0
    THEN min(DETECTION_SCORES.MULTIPLE_ENDPOINTS, endpointCount * perMatch)
    ELSE 0

\* a *.py file with none of the patterns the detector looks for
PlainPy ==
    [readable |-> TRUE,
     fastapiImport |-> FALSE, fastapiInstance |-> FALSE, apiRouter |-> FALSE,
     fastapiRoutes |-> 0,
     flaskImport |-> FALSE, flaskInstance |-> FALSE, blueprint |-> FALSE,
     flaskRoutes |-> 0,
     drfImport |-> FALSE, apiViewDecorators |-> 0, viewSet |-> FALSE,
     apiViewClass |-> FALSE, drfRouter |-> FALSE, serializer |-> FALSE]

NoJava == [hasMaven |-> FALSE, mavenSpringBoot |-> FALSE, hasGradle |-> FALSE,
           gradleSpringBoot |-> FALSE, controllers |-> <<>>]

\* csprojs: for each *.csproj whether it names the web SDK; controllers: for
\* each controller file its number of Http attributes
NoDotNet == [csprojs |-> <<>>, controllers |-> <<>>]

EmptyDir == [exists |-> TRUE, spec |-> "none", pyIndicator |-> FALSE,
             managePy |-> FALSE, pyFiles |-> <<>>, java |-> NoJava,
             dotnet |-> NoDotNet]

SPEC_FILE == "openapi.yaml"
NoDetection == [type |-> "-", confidence |-> 0, specFile |-> "none",
                estimatedEndpoints |-> 0]

\* ProjectDetector.createUnknownResult
createUnknownResult ==
    [type |-> UNKNOWN, confidence |-> 0, specFile |-> "none", estimatedEndpoints |-> 0]

\* ProjectDetector.detectOpenApi; NoDetection stands for null
detectOpenApi(dir) ==
    IF dir.spec = "valid"
    THEN [type |-> OPENAPI, confidence |-> DETECTION_SCORES.OPENAPI_SPEC,
          specFile |-> SPEC_FILE, estimatedEndpoints |-> 0]
    ELSE NoDetection

\* the loop over the files: a file that cannot be read adds nothing
Readable(files) == SelectSeq(files, LAMBDA f : f.readable)

\* ProjectDetector.detectFastApi
detectFastApi(dir) ==
    LET files == Readable(dir.pyFiles)
        perFile == [i \in 1..Len(files) |->
            score(files[i].fastapiImport, DETECTION_SCORES.CODE_PATTERN)
            + score(files[i].fastapiInstance, DETECTION_SCORES.FRAMEWORK_FILE)
            + score(files[i].apiRouter, DETECTION_SCORES.PROJECT_FILE)]
        endpointCount == sumSeq([i \in 1..Len(files) |-> files[i].fastapiRoutes])
    IN [score |-> sumSeq(perFile)
                  + endpointBonus(endpointCount, 5),
        endpoints |-> endpointCount]

\* ProjectDetector.detectFlask
detectFlask(dir) ==
    LET files == Readable(dir.pyFiles)
        perFile == [i \in 1..Len(files) |->
            score(files[i].flaskImport, DETECTION_SCORES.CODE_PATTERN)
            + score(files[i].flaskInstance, DETECTION_SCORES.FRAMEWORK_FILE)
            + score(files[i].blueprint, DETECTION_SCORES.PROJECT_FILE)]
        endpointCount == sumSeq([i \in 1..Len(files) |-> files[i].flaskRoutes])
    IN [score |-> sumSeq(perFile)
                  + endpointBonus(endpointCount, 5),
        endpoints |-> endpointCount]

\* ProjectDetector.detectDjango
detectDjango(dir) ==
    LET files == Readable(dir.pyFiles)
        perFile == [i \in 1..Len(files) |->
            score(files[i].drfImport, DETECTION_SCORES.CODE_PATTERN)
            + score(files[i].viewSet, DETECTION_SCORES.FRAMEWORK_FILE)
            + score(files[i].apiViewClass, DETECTION_SCORES.CODE_PATTERN)
            + score(files[i].drfRouter, DETECTION_SCORES.PROJECT_FILE)
            + score(files[i].serializer, DETECTION_SCORES.PROJECT_FILE)]
        endpointCount == sumSeq([i \in 1..Len(files) |->
            files[i].apiViewDecorators + score(files[i].viewSet, 6)
            + score(files[i].apiViewClass, 1)])
    IN [score |-> score(dir.managePy, DETECTION_SCORES.PROJECT_FILE)
                  + sumSeq(perFile)
                  + endpointBonus(endpointCount, 3),
        endpoints |-> endpointCount]

\* Array.prototype.sort with (a, b) => key(b) - key(a): descending and stable
\* keys[i] is the key of s[i]
sortDescending(s, keys) ==
    LET rank(i) == 1 + Cardinality({ j \in 1..Len(s) :
                        \/ keys[j] > keys[i]
                        \/ keys[j] = keys[i] /\ j < i })
    IN [k \in 1..Len(s) |-> s[CHOOSE i \in 1..Len(s) : rank(i) = k]]

\* ProjectDetector.detectPython
detectPython(dir) ==
    IF ~dir.pyIndicator /\ dir.pyFiles = <<>> THEN NoDetection
    ELSE LET fastapiScore == detectFastApi(dir)
             flaskScore == detectFlask(dir)
             djangoScore == detectDjango(dir)
             candidates ==
                 << [type |-> FASTAPI, score |-> fastapiScore.score,
                     endpoints |-> fastapiScore.endpoints],
                    [type |-> FLASK, score |-> flaskScore.score,
                     endpoints |-> flaskScore.endpoints],
                    [type |-> DJANGO_REST, score |-> djangoScore.score,
                     endpoints |-> djangoScore.endpoints] >>
             scores == sortDescending(candidates,
                           [i \in 1..Len(candidates) |-> candidates[i].score])
             best == scores[1]
         IN IF best.score >= MIN_CONFIDENCE_THRESHOLD
            THEN [type |-> best.type, confidence |-> best.score,
                  specFile |-> "none", estimatedEndpoints |-> best.endpoints]
            ELSE NoDetection

\* ProjectDetector.detectJava
detectJava(dir) ==
    IF ~dir.java.hasMaven /\ ~dir.java.hasGradle THEN NoDetection
    ELSE LET endpointCount == sumSeq(dir.java.controllers)
             total == DETECTION_SCORES.PROJECT_FILE
                 + score(dir.java.hasMaven /\ dir.java.mavenSpringBoot,
                         DETECTION_SCORES.FRAMEWORK_FILE)
                 + score(dir.java.hasGradle /\ dir.java.gradleSpringBoot,
                         DETECTION_SCORES.FRAMEWORK_FILE)
                 + Len(dir.java.controllers) * DETECTION_SCORES.CODE_PATTERN
                 + endpointBonus(endpointCount, 3)
         IN IF total < MIN_CONFIDENCE_THRESHOLD THEN NoDetection
            ELSE [type |-> SPRING_BOOT, confidence |-> min(total, 100),
                  specFile |-> "none", estimatedEndpoints |-> endpointCount]

\* ProjectDetector.detectDotNet
detectDotNet(dir) ==
    IF dir.dotnet.csprojs = <<>> THEN NoDetection
    ELSE LET endpointCount == sumSeq(dir.dotnet.controllers)
             total == DETECTION_SCORES.PROJECT_FILE
                 + sumSeq([i \in 1..Len(dir.dotnet.csprojs) |->
                      score(dir.dotnet.csprojs[i], DETECTION_SCORES.FRAMEWORK_FILE)])
                 + Len(dir.dotnet.controllers) * DETECTION_SCORES.CODE_PATTERN
                 + endpointBonus(endpointCount, 3)
         IN IF total < MIN_CONFIDENCE_THRESHOLD THEN NoDetection
            ELSE [type |-> ASPNET_CORE, confidence |-> min(total, 100),
                  specFile |-> "none", estimatedEndpoints |-> endpointCount]

\* `if (result) results.push(result)`
Push(results, result) == IF result = NoDetection THEN results ELSE Append(results, result)

\* the results in the order the strategies pushed them
pushOrder(results) == results

\* results.sort((a, b) => b.confidence - a.confidence)
sortByConfidence(results) ==
    sortDescending(results, [i \in 1..Len(results) |-> results[i].confidence])

\* the end of detect(): the first of the sorted results, or unknown
selectBest(sorted) ==
    IF sorted = <<>> THEN createUnknownResult
    ELSE IF sorted[1].confidence < MIN_CONFIDENCE_THRESHOLD THEN createUnknownResult
    ELSE sorted[1]

\* ProjectDetector.detect
detect(dir) ==
    IF ~dir.exists THEN createUnknownResult
    ELSE selectBest(sortByConfidence(
            Push(Push(Push(Push(<<>>, detectOpenApi(dir)), detectPython(dir)),
                      detectJava(dir)), detectDotNet(dir))))

----------------------------------------------------------------------------
(* Orchestrator and ConfigLoader: src/src/core/orchestrator.ts *)

DEFAULT_CONFIG ==
    [source |-> "auto", output |-> "./apigen-output",
     baseUrl |-> "http://localhost:3000", auth |-> TRUE,
     generators |-> [postman |-> TRUE, curl |-> TRUE, readme |-> TRUE],
     mockData |-> [enabled |-> TRUE], framework |-> "auto"]

\* ConfigLoader.mergeWithCliArgs; "unset" stands for an option that is undefined
mergeWithCliArgs(cfg, args) ==
    LET withSource == IF args.source # "unset"
                      THEN [cfg EXCEPT !.source = args.source] ELSE cfg
    IN IF args.framework # "unset"
       THEN [withSource EXCEPT !.framework = args.framework] ELSE withSource

\* new URL(url) succeeds
isValidUrl(url) == url = "http://localhost:3000"

\* validateConfig(config).valid
validateConfig(cfg) ==
    /\ cfg.source # ""
    /\ cfg.output # ""
    /\ cfg.baseUrl # ""
    /\ isValidUrl(cfg.baseUrl)
    /\ (cfg.generators.postman \/ cfg.generators.curl \/ cfg.generators.readme)

\* Orchestrator.selectExtractor: the class of the instance returned, or
\* "throws" for the default branch
selectExtractor(projectType) ==
    IF projectType = OPENAPI THEN "OpenApiExtractor"
    ELSE IF projectType = FASTAPI THEN "FastApiExtractor"
    ELSE IF projectType = FLASK THEN "FlaskExtractor"
    ELSE IF projectType = SPRING_BOOT THEN "SpringBootExtractor"
    ELSE IF projectType = ASPNET_CORE THEN "AspNetExtractor"
    ELSE "throws"

\* one call of handleGenerate before its first statement
NewRun ==
    [pc |-> "start", projectType |-> "-", specFile |-> "none", detected |-> "-",
     extractor |-> "none", detectCalled |-> FALSE, stages |-> <<>>,
     extracted |-> "-", warnings |-> <<>>]

\* process.exit(1) inside handleGenerate
exitRun(run) == [run EXCEPT !.pc = "exited"]

\* handleGenerate, step 3: selectExtractor and the call of extract. An Error
\* thrown by selectExtractor reaches the catch of handleGenerate.
selectAndExtract(run, projectType, specFile) ==
    LET extractor == selectExtractor(projectType)
        typed == [run EXCEPT !.projectType = projectType, !.specFile = specFile]
    IN IF extractor = "throws" THEN exitRun(typed)
       ELSE [typed EXCEPT !.pc = "extract", !.extractor = extractor,
                          !.stages = Append(@, "extraction")]

\* handleGenerate from its entry to its first await that leaves the event
\* loop free: config load, merge, validation, then detect or extract. load()
\* reads the config file synchronously.
beginGenerate(cfg) ==
    LET run == [NewRun EXCEPT !.stages = <<"config">>]
    IN IF ~validateConfig(cfg) THEN exitRun(run)
       ELSE IF cfg.framework # "" /\ cfg.framework # "auto"
       THEN selectAndExtract(run, cfg.framework,
               IF cfg.framework = OPENAPI /\ cfg.source # "auto"
               THEN cfg.source ELSE "none")
       ELSE [run EXCEPT !.pc = "detect", !.detectCalled = TRUE,
                        !.stages = Append(@, "detection")]

\* handleGenerate after `await this.detector.detect(workingDir)`
afterDetect(run, detection) ==
    LET seen == [run EXCEPT !.detected = detection.type]
    IN IF detection.type = UNKNOWN THEN exitRun(seen)
       ELSE selectAndExtract(seen, detection.type, detection.specFile)

\* the extractor classes that scan source code
HeuristicExtractors ==
    {"FastApiExtractor", "FlaskExtractor", "SpringBootExtractor", "AspNetExtractor",
     "DjangoRestExtractor"}

\* a successful result that carries no warning
noWarnings(extractor) == <<>>

\* extractResult.warnings of a successful result: each extractor that scans
\* source code pushes its one "experimental" message before it returns,
\* OpenApiExtractor passes no warnings
extractorWarnings(extractor) ==
    IF extractor = "FastApiExtractor" THEN <<FASTAPI_WARNING>>
    ELSE IF extractor \in HeuristicExtractors THEN <<extractor \o " experimental">>
    ELSE <<>>

\* going on to the resolvers whatever extract returned
resolveAnyway(run, success, cfg) ==
    [run EXCEPT !.extracted = IF success THEN "success" ELSE "failure",
                !.pc = "mock", !.stages = Append(@, "mock")]

\* handleGenerate after `await extractor.extract(...)`; success stands for
\* extractResult.success && extractResult.project
afterExtract(run, success, cfg) ==
    IF ~success THEN exitRun([run EXCEPT !.extracted = "failure"])
    ELSE LET got == [run EXCEPT !.extracted = "success",
                                !.warnings = extractorWarnings(run.extractor)]
         IN IF cfg.mockData.enabled
            THEN [got EXCEPT !.pc = "mock", !.stages = Append(@, "mock")]
            ELSE IF cfg.auth
            THEN [got EXCEPT !.pc = "auth", !.stages = Append(@, "auth")]
            ELSE [got EXCEPT !.pc = "generate", !.stages = Append(@, "generators")]

\* handleGenerate after `await mockResolver.resolve(project)`
afterMock(run, cfg) ==
    IF cfg.auth
    THEN [run EXCEPT !.pc = "auth", !.stages = Append(@, "auth")]
    ELSE [run EXCEPT !.pc = "generate", !.stages = Append(@, "generators")]

\* handleGenerate after `await authResolver.resolve(project)`
afterAuth(run) == [run EXCEPT !.pc = "generate", !.stages = Append(@, "generators")]

InProgress(run) == run.pc \notin {"done", "exited"}

----------------------------------------------------------------------------
(* Idle values of each part *)

NoPath == <<"-">>
NoEndpoint == [method |-> "-"]
NoRoute == [method |-> "-"]

IdleNormalize == rawPath = NoPath /\ normPath = NoPath /\ npc = "idle"

IdleRoute ==
    /\ rtExtractor = "-"
    /\ rtRoute = NoRoute
    /\ rtModels = {}
    /\ rtRouters = <<>>
    /\ rtEndpoint = NoEndpoint

IdleConvert ==
    /\ cvPath = NoPath
    /\ cvMethod = "-"
    /\ cvOperation = NoOperation
    /\ cvPathParams = <<>>
    /\ cvEndpoint = NoEndpoint

NoDoc == [deref |-> FALSE, bundle |-> FALSE, paths |-> <<>>, tags |-> <<>>,
          securitySchemes |-> <<>>]
NoResult == [success |-> FALSE, hasProject |-> FALSE, groups |-> <<>>,
             errors |-> <<>>, warnings |-> <<>>, filesProcessed |-> 0,
             endpointsFound |-> 0]

IdleExtract ==
    /\ exExtractor = "-"
    /\ exFiles = <<>>
    /\ exDoc = NoDoc
    /\ exResult = NoResult
    /\ exInstance = FreshInstance
    /\ exBefore = FreshInstance
    /\ exCalls = 0
    /\ exConfig = NoConfig

IdleDetect ==
    /\ dtDir = EmptyDir
    /\ dtPc = "idle"
    /\ dtResults = <<>>
    /\ dtResult = NoDetection

IdleCli ==
    /\ gnCommand = "-"
    /\ gnOptions = [framework |-> "unset", source |-> "unset"]
    /\ gnLoaded = DEFAULT_CONFIG
    /\ gnDir = EmptyDir
    /\ gnExtraction = "failure"
    /\ config = DEFAULT_CONFIG
    /\ runs = <<>>
    /\ alive = TRUE
    /\ wtWatching = FALSE
    /\ debounceTimer = "null"
    /\ wtEvents = 0
    /\ wtTimers = <<>>
    /\ wtSince = 0
    /\ wtBursts = 0

----------------------------------------------------------------------------
(* SpecNormalize: normalizePath applied to every bounded path *)

PathTokens == {SLASH, "a"}

InitNormalize ==
    /\ rawPath \in SeqsUpTo(PathTokens, MaxPathLen)
    /\ normPath = NoPath
    /\ npc = "raw"
    /\ IdleRoute
    /\ IdleConvert
    /\ IdleExtract
    /\ IdleDetect
    /\ IdleCli

NormalizePath ==
    /\ npc = "raw"
    /\ normPath' = normalizePath(rawPath)
    /\ npc' = "done"
    /\ UNCHANGED <<rawPath, routeVars, convertVars, extractVars, detectVars, cliVars>>

NextNormalize == NormalizePath

SpecNormalize == InitNormalize /\ [][NextNormalize]_vars

\* the text normalizePath promises: a leading "/", no trailing "/" except on
\* the root path, no "//"
IsNormalized(path) ==
    /\ Len(path) >= 1
    /\ path[1] = SLASH
    /\ (path[Len(path)] = SLASH => path = <<SLASH>>)
    /\ \A i \in 1..(Len(path) - 1) : ~(path[i] = SLASH /\ path[i + 1] = SLASH)

\* C1: the path returned by normalizePath starts with "/", does not end with
\* "/" unless it is exactly "/", and contains no "//", for every input.
C1_PathNormalized == npc = "done" => IsNormalized(normPath)

----------------------------------------------------------------------------
(* SpecRoute: routeToEndpoint on every bounded route *)

RouteMethods == {"GET", "POST"}

\* route paths as joinPaths and the decorators deliver them: "/" before every
\* segment, no placeholder twice
Segments == {"a", "{id}", "{q}"}

RECURSIVE pathOf(_)
pathOf(segs) ==
    IF segs = <<>> THEN <<>> ELSE <<SLASH, Head(segs)>> \o pathOf(Tail(segs))

Distinct(s) == \A i, j \in 1..Len(s) : i # j => s[i] # s[j]

RoutePaths ==
    { pathOf(segs) : segs \in { s \in SeqsUpTo(Segments, MaxSegments) :
                                  Len(s) >= 1 /\ Distinct(s) } }

DistinctNames(params) ==
    \A i, j \in 1..Len(params) : i # j => params[i].name # params[j].name

AspNetHandlerParams ==
    { ps \in SeqsUpTo([name : {"id", "q"}, type : {"int", "UserDto"},
                       attr : {"FromRoute", "FromQuery", "FromBody", "none"},
                       hasDefault : BOOLEAN], MaxParams) : DistinctNames(ps) }

\* a handler parameter named after a placeholder of the route is bound from
\* the route: it carries [FromRoute] or no attribute, and has a simple type
BoundFromRoute(path, params) ==
    \A i \in 1..Len(params) :
        InSeq(params[i].name, extractPathParams(path)) =>
            params[i].attr \in {"FromRoute", "none"} /\ params[i].type = "int"

FastApiHandlerParams ==
    { ps \in SeqsUpTo([name : {"id", "q", "db"}, type : {"int", "UserDto"},
                       attr : {"none"}, hasDefault : BOOLEAN], MaxParams) :
        DistinctNames(ps) }

RouterTables == { <<>>, [n \in {"router"} |-> <<SLASH, "api">>] }

InitRoute ==
    /\ rtExtractor \in {"aspnet", "fastapi"}
    /\ \E path \in RoutePaths, method \in RouteMethods :
         \/ /\ rtExtractor = "aspnet"
            /\ \E params \in AspNetHandlerParams :
                 /\ BoundFromRoute(path, params)
                 /\ rtRoute = [method |-> method, path |-> path,
                               routerName |-> "-", params |-> params]
            /\ rtModels = {}
            /\ rtRouters = <<>>
         \/ /\ rtExtractor = "fastapi"
            /\ \E params \in FastApiHandlerParams, routerName \in {"app", "router"} :
                 rtRoute = [method |-> method, path |-> path,
                            routerName |-> routerName, params |-> params]
            /\ rtModels \in SUBSET {"UserDto"}
            /\ rtRouters \in RouterTables
    /\ rtEndpoint = NoEndpoint
    /\ IdleNormalize
    /\ IdleConvert
    /\ IdleExtract
    /\ IdleDetect
    /\ IdleCli

AspNetRouteToEndpoint ==
    /\ rtExtractor = "aspnet"
    /\ rtEndpoint = NoEndpoint
    /\ rtEndpoint' = aspNetRouteToEndpoint(rtRoute)
    /\ UNCHANGED <<rtExtractor, rtRoute, rtModels, rtRouters, normVars, convertVars,
                   extractVars, detectVars, cliVars>>

FastApiRouteToEndpoint ==
    /\ rtExtractor = "fastapi"
    /\ rtEndpoint = NoEndpoint
    /\ rtEndpoint' = fastApiRouteToEndpoint(rtRoute, rtRouters, rtModels)
    /\ UNCHANGED <<rtExtractor, rtRoute, rtModels, rtRouters, normVars, convertVars,
                   extractVars, detectVars, cliVars>>

NextRoute == AspNetRouteToEndpoint \/ FastApiRouteToEndpoint

SpecRoute == InitRoute /\ [][NextRoute]_vars

PathParamsNamed(endpoint, name) ==
    { i \in 1..Len(endpoint.parameters) :
        endpoint.parameters[i].name = name /\ endpoint.parameters[i].in = "path" }

\* every placeholder of the endpoint's path has exactly one path parameter
\* of its name, and that parameter is required
PathParamsComplete(endpoint) ==
    \A name \in { PlaceholderName[t] : t \in { tok \in DOMAIN PlaceholderName :
                                                InSeq(tok, endpoint.path) } } :
        /\ Cardinality(PathParamsNamed(endpoint, name)) = 1
        /\ \A i \in PathParamsNamed(endpoint, name) : endpoint.parameters[i].required

\* C2: for every Endpoint of a heuristic extractor and every {name}
\* placeholder of its path there is exactly one parameter of that name with
\* location path, and it is required, also when the handler declares a
\* parameter of that name without a route annotation.
C2_PathParamComplete == rtEndpoint # NoEndpoint => PathParamsComplete(rtEndpoint)

\* the handler parameters whose declared type is a discovered Pydantic model
ModelParams ==
    { i \in 1..Len(rtRoute.params) : rtRoute.params[i].type \in rtModels }

\* C28: in FastApiExtractor.routeToEndpoint, whenever a handler parameter's
\* declared type is a discovered Pydantic model the Endpoint has a requestBody
\* built from that model, whatever the HTTP method of the route; every other
\* handler parameter that is no path placeholder and is not named request, db
\* or session is a query parameter of the Endpoint.
C28_ModelParamIsBody ==
    (rtExtractor = "fastapi" /\ rtEndpoint # NoEndpoint)
    => /\ ModelParams # {} =>
            \E i \in ModelParams : rtEndpoint.requestBody = rtRoute.params[i].type
       /\ \A i \in (1..Len(rtRoute.params)) \ ModelParams :
            LET param == rtRoute.params[i]
            IN (/\ \A j \in 1..Len(rtEndpoint.parameters) :
                      ~(rtEndpoint.parameters[j].name = param.name
                        /\ rtEndpoint.parameters[j].in = "path")
                /\ param.name \notin {"request", "db", "session"})
               => \E j \in 1..Len(rtEndpoint.parameters) :
                     /\ rtEndpoint.parameters[j].name = param.name
                     /\ rtEndpoint.parameters[j].in = "query"

----------------------------------------------------------------------------
(* SpecConvert: OpenApiExtractor.createEndpoint on every bounded operation *)

\* the parameter objects of a document: `in` as written in the document
\* ("body" is the Swagger 2.0 location that is not in the table)
\* A parameter written with in: path and required: false contradicts the
\* OpenAPI format itself and is left out.
OpenApiParameters ==
    { p \in [name : {"id", "q"}, in : {"path", "query", "Header", "body"},
             required : {"true", "false", "absent"}] :
        ~(p.in = "path" /\ p.required = "false") }

InitConvert ==
    /\ cvPath \in {<<SLASH, "a">>, <<SLASH, "a", SLASH, "{id}">>}
    /\ cvMethod = "GET"
    /\ cvOperation \in [present : {TRUE}, tags : {<<>>},
                         parameters : SeqsUpTo(OpenApiParameters, MaxOpParams),
                         responses : {<<<<"2", "0", "0">>>>}]
    /\ cvPathParams \in SeqsUpTo(OpenApiParameters, 1)
    /\ cvEndpoint = NoEndpoint
    /\ IdleNormalize
    /\ IdleRoute
    /\ IdleExtract
    /\ IdleDetect
    /\ IdleCli

CreateEndpoint ==
    /\ cvEndpoint = NoEndpoint
    /\ cvEndpoint' = createEndpoint(cvPath, cvMethod, cvOperation, cvPathParams)
    /\ UNCHANGED <<cvPath, cvMethod, cvOperation, cvPathParams, normVars, routeVars,
                   extractVars, detectVars, cliVars>>

NextConvert == CreateEndpoint

SpecConvert == InitConvert /\ [][NextConvert]_vars

PathParamsRequired(endpoint) ==
    \A i \in 1..Len(endpoint.parameters) :
        endpoint.parameters[i].in = "path" => endpoint.parameters[i].required

\* C3: every Parameter with location path in an extractor's output has
\* required = true, also a parameter converted by the OpenAPI extractor whose
\* entry omits `required` or whose `in` is not path, query, header or cookie.
C3_PathParamRequired == cvEndpoint # NoEndpoint => PathParamsRequired(cvEndpoint)

\* the endpoint has, at place i, the parameter made from `param`: its name,
\* and its location when that is one of the four locations
MadeFrom(endpoint, i, param) ==
    /\ i \in 1..Len(endpoint.parameters)
    /\ endpoint.parameters[i].name = param.name
    /\ param.in \in {"path", "query"} => endpoint.parameters[i].in = param.in

\* C25: the parameters of an Endpoint are the path-level parameters of its
\* path item followed by the operation-level parameters of its operation:
\* each of them is there, and an operation-level parameter removes no
\* path-level one, not even one of the same name.
C25_ParametersUnion ==
    cvEndpoint # NoEndpoint
    => /\ Len(cvEndpoint.parameters)
            = Len(cvPathParams) + Len(cvOperation.parameters)
       /\ \A i \in 1..Len(cvPathParams) : MadeFrom(cvEndpoint, i, cvPathParams[i])
       /\ \A j \in 1..Len(cvOperation.parameters) :
             MadeFrom(cvEndpoint, Len(cvPathParams) + j, cvOperation.parameters[j])

\* an operation-level parameter with the name of the path-level one was added
C25_Witness ==
    /\ cvEndpoint # NoEndpoint
    /\ Len(cvPathParams) = 1
    /\ Len(cvOperation.parameters) = 1
    /\ cvOperation.parameters[1].name = cvPathParams[1].name
    /\ Len(cvEndpoint.parameters) = 2

----------------------------------------------------------------------------
(* SpecResponses: createEndpoint on every bounded `responses` object *)

ResponseKeyChars == {"2", "0", "X"}

\* the keys of a `responses` object: short strings, and 'default'
ResponseKeys ==
    (SeqsUpTo(ResponseKeyChars, MaxKeyLen) \ {<<>>})
    \cup {<<"d", "e", "f", "a", "u", "l", "t">>}

\* the keys of an object are distinct
ResponseObjects == { ks \in SeqsUpTo(ResponseKeys, MaxResponses) : Distinct(ks) }

InitResponses ==
    /\ cvPath = <<SLASH, "a">>
    /\ cvMethod = "GET"
    /\ cvOperation \in [present : {TRUE}, tags : {<<>>}, parameters : {<<>>},
                         responses : ResponseObjects]
    /\ cvPathParams = <<>>
    /\ cvEndpoint = NoEndpoint
    /\ IdleNormalize
    /\ IdleRoute
    /\ IdleExtract
    /\ IdleDetect
    /\ IdleCli

SpecResponses == InitResponses /\ [][NextConvert]_vars

\* a key that writes a decimal integer, and the integer it writes
IsDecimalInteger(key) == key # <<>> /\ \A i \in 1..Len(key) : IsDigit(key[i])

RECURSIVE DecimalValue(_)
DecimalValue(key) ==
    IF key = <<>> THEN 0
    ELSE 10 * DecimalValue(SubSeq(key, 1, Len(key) - 1)) + DigitValue[key[Len(key)]]

\* C22: every Response of the endpoint has a numeric statusCode: the integer
\* that its key writes when the key is a decimal integer, and 200 for every
\* non-numeric key such as 'default' or '2XX'.
C22_StatusCode ==
    cvEndpoint # NoEndpoint
    => LET codes == objectEntries(cvOperation.responses)
       IN /\ Len(cvEndpoint.responses) = Len(codes)
          /\ \A i \in 1..Len(codes) :
                cvEndpoint.responses[i].statusCode
                  = IF IsDecimalInteger(codes[i]) THEN DecimalValue(codes[i]) ELSE 200

----------------------------------------------------------------------------
(* SpecDetect: ProjectDetector.detect on every bounded directory *)

DecoratorCounts == {1, MaxDecorators}

\* the *.py files the detector can meet: one framework per file
PyKinds ==
    {PlainPy, [PlainPy EXCEPT !.readable = FALSE]}
    \cup { [PlainPy EXCEPT !.fastapiImport = TRUE, !.fastapiInstance = TRUE,
                           !.fastapiRoutes = n] : n \in DecoratorCounts }
    \cup { [PlainPy EXCEPT !.fastapiImport = TRUE, !.apiRouter = TRUE,
                           !.fastapiRoutes = 1] }
    \cup { [PlainPy EXCEPT !.flaskImport = TRUE, !.flaskInstance = TRUE,
                           !.flaskRoutes = n] : n \in DecoratorCounts }
    \cup { [PlainPy EXCEPT !.drfImport = TRUE, !.viewSet = TRUE, !.serializer = TRUE],
           [PlainPy EXCEPT !.drfImport = TRUE, !.apiViewDecorators = 1] }

JavaProjects ==
    { NoJava,
      [NoJava EXCEPT !.hasMaven = TRUE],
      [NoJava EXCEPT !.hasMaven = TRUE, !.mavenSpringBoot = TRUE,
                     !.controllers = <<MaxDecorators>>] }

DotNetProjects ==
    { NoDotNet,
      [NoDotNet EXCEPT !.csprojs = <<FALSE>>],
      [NoDotNet EXCEPT !.csprojs = <<TRUE>>, !.controllers = <<1>>] }

Directories ==
    { [EmptyDir EXCEPT !.exists = FALSE] }
    \cup
    [exists : {TRUE}, spec : {"none", "invalid", "valid"},
     pyIndicator : BOOLEAN, managePy : BOOLEAN,
     pyFiles : SeqsUpTo(PyKinds, MaxPyFiles),
     java : JavaProjects, dotnet : DotNetProjects]

InitDetect ==
    /\ dtDir \in Directories
    /\ dtPc = "openapi"
    /\ dtResults = <<>>
    /\ dtResult = NoDetection
    /\ IdleNormalize
    /\ IdleRoute
    /\ IdleConvert
    /\ IdleExtract
    /\ IdleCli

\* from the entry of detect() to the end of `await this.detectOpenApi`
DetectOpenApi ==
    /\ dtPc = "openapi"
    /\ IF ~dtDir.exists
       THEN /\ dtResult' = createUnknownResult
            /\ dtPc' = "done"
            /\ UNCHANGED dtResults
       ELSE /\ dtResults' = Push(dtResults, detectOpenApi(dtDir))
            /\ dtPc' = "python"
            /\ UNCHANGED dtResult
    /\ UNCHANGED <<dtDir, normVars, routeVars, convertVars, extractVars, cliVars>>

DetectPython ==
    /\ dtPc = "python"
    /\ dtResults' = Push(dtResults, detectPython(dtDir))
    /\ dtPc' = "java"
    /\ UNCHANGED <<dtDir, dtResult, normVars, routeVars, convertVars, extractVars, cliVars>>

DetectJava ==
    /\ dtPc = "java"
    /\ dtResults' = Push(dtResults, detectJava(dtDir))
    /\ dtPc' = "dotnet"
    /\ UNCHANGED <<dtDir, dtResult, normVars, routeVars, convertVars, extractVars, cliVars>>

\* `await this.detectDotNet` and the rest of detect(): sort, threshold, return
DetectDotNet ==
    /\ dtPc = "dotnet"
    /\ dtResults' = sortByConfidence(Push(dtResults, detectDotNet(dtDir)))
    /\ dtResult' = selectBest(dtResults')
    /\ dtPc' = "done"
    /\ UNCHANGED <<dtDir, normVars, routeVars, convertVars, extractVars, cliVars>>

NextDetect == DetectOpenApi \/ DetectPython \/ DetectJava \/ DetectDotNet

SpecDetect == InitDetect /\ [][NextDetect]_vars

\* C4: when detect finds a spec file that passes validateOpenApiSpec it
\* returns type openapi with confidence 100 and that specFile; the Python,
\* Java and .NET heuristics cannot change the returned type.
C4_OpenApiWins ==
    (dtPc = "done" /\ dtDir.exists /\ dtDir.spec = "valid")
    => /\ dtResult.type = OPENAPI
       /\ dtResult.confidence = 100
       /\ dtResult.specFile = SPEC_FILE

\* C5: the confidence of every DetectionResult returned by detect is an
\* integer between 0 and 100 inclusive, for every combination of signals.
C5_ConfidenceRange ==
    dtPc = "done" => dtResult.confidence \in 0..100

\* What the four strategies return for the directory, in the order detect
\* runs them, without the strategies that return null.
candidates ==
    IF ~dtDir.exists THEN <<>>
    ELSE Push(Push(Push(Push(<<>>, detectOpenApi(dtDir)), detectPython(dtDir)),
                   detectJava(dtDir)), detectDotNet(dtDir))

IsBest(i) ==
    /\ \A j \in 1..Len(candidates) : candidates[j].confidence <= candidates[i].confidence
    /\ \A j \in 1..(i - 1) : candidates[j].confidence < candidates[i].confidence

\* C13: detect returns the candidate of highest confidence among those of the
\* OpenAPI, Python, Java and .NET strategies, the one evaluated earlier when
\* two are level; with no candidate, or the best below 30, it returns the
\* unknown type with confidence 0.
C13_BestCandidate ==
    dtPc = "done"
    => IF \E i \in 1..Len(candidates) :
            candidates[i].confidence >= MIN_CONFIDENCE_THRESHOLD
       THEN \E i \in 1..Len(candidates) : IsBest(i) /\ dtResult = candidates[i]
       ELSE dtResult.type = UNKNOWN /\ dtResult.confidence = 0

\* Two strategies are level at the top, at or above the threshold, and detect
\* has returned the candidate of the one evaluated earlier.
C13_Witness ==
    /\ dtPc = "done"
    /\ \E i, j \in 1..Len(candidates) :
        /\ i < j
        /\ IsBest(i)
        /\ candidates[j].confidence = candidates[i].confidence
        /\ candidates[i].confidence >= MIN_CONFIDENCE_THRESHOLD
        /\ dtResult = candidates[i]

\* The directory with n more matches of one kind in its i-th *.py file, in
\* its i-th Java controller, in its i-th C# controller: all else as it was.
morePyMatches(dir, i, field, n) == [dir EXCEPT !.pyFiles[i][field] = @ + n]
moreJavaMatches(dir, i, n) == [dir EXCEPT !.java.controllers[i] = @ + n]
moreDotNetMatches(dir, i, n) == [dir EXCEPT !.dotnet.controllers[i] = @ + n]

\* C14: with every other signal as it is, more route-decorator or annotation
\* matches never lower the score of a framework heuristic, and the bonus a
\* heuristic adds for its match count is never more than 80.
C14_ScoreMonotone ==
    dtPc = "done"
    => \A n \in DecoratorCounts :
        /\ \A i \in 1..Len(dtDir.pyFiles) :
              /\ detectFastApi(dtDir).score
                   <= detectFastApi(morePyMatches(dtDir, i, "fastapiRoutes", n)).score
              /\ detectFlask(dtDir).score
                   <= detectFlask(morePyMatches(dtDir, i, "flaskRoutes", n)).score
              /\ detectDjango(dtDir).score
                   <= detectDjango(morePyMatches(dtDir, i, "apiViewDecorators", n)).score
        /\ \A i \in 1..Len(dtDir.java.controllers) :
              detectJava(dtDir).confidence
                <= detectJava(moreJavaMatches(dtDir, i, n)).confidence
        /\ \A i \in 1..Len(dtDir.dotnet.controllers) :
              detectDotNet(dtDir).confidence
                <= detectDotNet(moreDotNetMatches(dtDir, i, n)).confidence
        /\ endpointBonus(detectFastApi(dtDir).endpoints + n, 5) <= 80
        /\ endpointBonus(detectFlask(dtDir).endpoints + n, 5) <= 80
        /\ endpointBonus(detectDjango(dtDir).endpoints + n, 3) <= 80
        /\ endpointBonus(sumSeq(dtDir.java.controllers) + n, 3) <= 80
        /\ endpointBonus(sumSeq(dtDir.dotnet.controllers) + n, 3) <= 80

\* detect has returned FastAPI for a directory whose decorator count is past
\* the point where five points a match would give more than the ceiling.
C14_Witness ==
    /\ dtPc = "done"
    /\ dtResult.type = FASTAPI
    /\ detectFastApi(dtDir).endpoints * 5 > DETECTION_SCORES.MULTIPLE_ENDPOINTS
    /\ \E i \in 1..Len(dtDir.pyFiles) :
          detectFastApi(morePyMatches(dtDir, i, "fastapiRoutes", 1)).score
            = detectFastApi(dtDir).score

----------------------------------------------------------------------------
(* SpecGenerate and SpecWatch: the generate and watch commands *)

\* the values of --framework: the ones its help text lists, or none
FrameworkOptions == {"unset", "auto", "openapi", "fastapi", "flask", "spring", "aspnet"}

\* what ConfigLoader.load() can return: the defaults, merged with a config file
LoadedConfigs ==
    { DEFAULT_CONFIG,
      [DEFAULT_CONFIG EXCEPT !.baseUrl = ""],
      [DEFAULT_CONFIG EXCEPT !.mockData = [enabled |-> FALSE]],
      [DEFAULT_CONFIG EXCEPT !.auth = FALSE] }

\* what extract() makes of the source: endpoints, a document without
\* operations (the OpenAPI extractor only), or an error result
ExtractionOutcomes == {"endpoints", "empty", "failure"}

GenerateDirs ==
    { d \in Directories : Len(d.pyFiles) <= 1 /\ d.pyIndicator = (d.pyFiles # <<>>)
                          /\ ~d.managePy }

FastApiDir ==
    [EmptyDir EXCEPT !.pyIndicator = TRUE,
        !.pyFiles = <<[PlainPy EXCEPT !.fastapiImport = TRUE,
                                      !.fastapiInstance = TRUE, !.fastapiRoutes = 1]>>]

WatchDirs == { EmptyDir, [EmptyDir EXCEPT !.spec = "valid"], FastApiDir }

InitCli(command) ==
    /\ gnCommand = command
    /\ gnLoaded \in LoadedConfigs
    /\ gnExtraction \in ExtractionOutcomes
    /\ config = DEFAULT_CONFIG
    /\ runs = <<>>
    /\ alive = TRUE
    /\ wtWatching = FALSE
    /\ debounceTimer = "null"
    /\ wtEvents = 0
    /\ wtTimers = <<>>
    /\ wtSince = 0
    /\ wtBursts = 0
    /\ IdleNormalize
    /\ IdleRoute
    /\ IdleConvert
    /\ IdleExtract
    /\ IdleDetect

InitGenerate ==
    /\ InitCli("generate")
    /\ gnOptions \in [framework : FrameworkOptions, source : {"unset"}]
    /\ gnDir \in GenerateDirs

InitWatch ==
    /\ InitCli("watch")
    /\ gnOptions \in [framework : {"unset", "fastapi"}, source : {"unset"}]
    /\ gnDir \in WatchDirs

otherVars == <<normVars, routeVars, convertVars, extractVars, detectVars>>
clockVars == <<wtTimers, wtSince, wtBursts>>
inputVars == <<gnCommand, gnOptions, gnLoaded, gnDir>>

\* one call of handleGenerate(options) up to its first await on I/O
StartRun(options) ==
    /\ config' = mergeWithCliArgs(gnLoaded, options)
    /\ runs' = Append(runs, beginGenerate(config'))
    /\ alive' = (runs'[Len(runs')].pc # "exited")

\* the generate command: run() calls handleGenerate(options)
StartGenerate ==
    /\ gnCommand = "generate"
    /\ alive
    /\ runs = <<>>
    /\ StartRun(gnOptions)
    /\ UNCHANGED <<inputVars, gnExtraction, wtWatching, debounceTimer, wtEvents,
                   clockVars, otherVars>>

Step(r, run) ==
    /\ runs' = [runs EXCEPT ![r] = run]
    /\ alive' = (run.pc # "exited")
    /\ UNCHANGED <<inputVars, gnExtraction, config, wtWatching, debounceTimer,
                   wtEvents, clockVars, otherVars>>

Detected ==
    \E r \in 1..Len(runs) :
        /\ alive
        /\ runs[r].pc = "detect"
        /\ Step(r, afterDetect(runs[r], detect(gnDir)))

Extracted ==
    \E r \in 1..Len(runs) :
        /\ alive
        /\ runs[r].pc = "extract"
        /\ LET success == \/ gnExtraction = "endpoints"
                          \/ gnExtraction = "empty" /\ runs[r].extractor = "OpenApiExtractor"
           IN Step(r, afterExtract(runs[r], success, config))

MockResolved ==
    \E r \in 1..Len(runs) :
        /\ alive
        /\ runs[r].pc = "mock"
        /\ Step(r, afterMock(runs[r], config))

AuthResolved ==
    \E r \in 1..Len(runs) :
        /\ alive
        /\ runs[r].pc = "auth"
        /\ Step(r, afterAuth(runs[r]))

\* ensureDir and the three generators: none of them ends the run early
Generated ==
    \E r \in 1..Len(runs) :
        /\ alive
        /\ runs[r].pc = "generate"
        /\ Step(r, [runs[r] EXCEPT !.pc = "done"])

NextGenerate ==
    StartGenerate \/ Detected \/ Extracted \/ MockResolved \/ AuthResolved \/ Generated

SpecGenerate == InitGenerate /\ [][NextGenerate]_vars

\* the watch command: handleWatch registers the watcher and its three
\* handlers, then calls handleGenerate({...options, source: sourcePath})
HandleWatch ==
    /\ gnCommand = "watch"
    /\ alive
    /\ ~wtWatching
    /\ wtWatching' = TRUE
    /\ StartRun([gnOptions EXCEPT !.source = "/project"])
    /\ UNCHANGED <<inputVars, gnExtraction, debounceTimer, wtEvents, clockVars,
                   otherVars>>

\* a timer that is set and not cleared: leaving it be
keepTimeout(timers, handle) == timers

\* `if (debounceTimer) clearTimeout(debounceTimer)`: the handle names the
\* timer set last; clearing a timer that has fired does nothing
clearTimeout(timers, handle) ==
    IF handle = "pending" /\ timers # <<>>
    THEN SubSeq(timers, 1, Len(timers) - 1)
    ELSE timers

\* setTimeout(callback, 500): the delay is DebounceTicks ticks of the clock
setTimeout(timers, delay) == Append(timers, delay)

Due(timers) == { i \in 1..Len(timers) : timers[i] = 0 }

\* a change, add or unlink event: triggerRegenerate clears the timer and sets
\* a new one. The event tells that the source is no longer what it was. The
\* event loop runs the callback of a timer that is due before it delivers a
\* later event.
FileEvent ==
    /\ alive
    /\ wtWatching
    /\ wtEvents < MaxEvents
    /\ Due(wtTimers) = {}
    /\ wtEvents' = wtEvents + 1
    /\ wtTimers' = setTimeout(clearTimeout(wtTimers, debounceTimer), DebounceTicks)
    /\ debounceTimer' = "pending"
    /\ wtBursts' = IF wtEvents = 0 \/ wtSince >= DebounceTicks
                   THEN wtBursts + 1 ELSE wtBursts
    /\ wtSince' = 0
    /\ gnExtraction' \in ExtractionOutcomes
    /\ UNCHANGED <<inputVars, config, runs, alive, wtWatching, otherVars>>

\* the clock advances by one tick; a timer that is due fires first
Tick ==
    /\ alive
    /\ wtWatching
    /\ wtEvents > 0
    /\ wtSince < DebounceTicks
    /\ Due(wtTimers) = {}
    /\ wtTimers' = [i \in 1..Len(wtTimers) |-> wtTimers[i] - 1]
    /\ wtSince' = wtSince + 1
    /\ UNCHANGED <<inputVars, gnExtraction, config, runs, alive, wtWatching,
                   debounceTimer, wtEvents, wtBursts, otherVars>>

\* the callback of setTimeout, when its delay has run out
TimerFire ==
    /\ alive
    /\ \E i \in Due(wtTimers) :
        /\ wtTimers' = SubSeq(wtTimers, 1, i - 1) \o SubSeq(wtTimers, i + 1, Len(wtTimers))
        /\ debounceTimer' = IF i = Len(wtTimers) THEN "fired" ELSE debounceTimer
    /\ StartRun([gnOptions EXCEPT !.source = "/project"])
    /\ UNCHANGED <<inputVars, gnExtraction, wtWatching, wtEvents, wtSince, wtBursts,
                   otherVars>>

NextWatch ==
    \/ HandleWatch \/ FileEvent \/ Tick \/ TimerFire
    \/ Detected \/ Extracted \/ MockResolved \/ AuthResolved \/ Generated

SpecWatch == InitWatch /\ [][NextWatch]_vars

\* time passing: the clock ticks, or a timer that is due fires
ClockStep == Tick \/ TimerFire

\* The watch command with the scheduling of the event loop: time passes and
\* a timer that is due fires. A timer fires whatever the runs are doing, so
\* nothing is assumed about when their awaits return.
SpecWatchLive ==
    /\ InitWatch
    /\ [][NextWatch]_vars
    /\ WF_vars(ClockStep)

RunsInProgress == { r \in 1..Len(runs) : InProgress(runs[r]) }

\* C6: in watch mode at most one handleGenerate run is in progress at any
\* time: a regeneration whose debounce timer fires while another run is
\* still awaiting does not start until that run has finished.
C6_OneRunAtATime ==
    gnCommand = "watch" => Cardinality(RunsInProgress) <= 1

\* The regenerations started so far: every run but the one handleWatch starts.
Regenerations == IF runs = <<>> THEN 0 ELSE Len(runs) - 1

\* the runs started by the debounce timer: every run but the first, which
\* handleWatch starts itself
RegenerationRuns == 2..Len(runs)

\* C29: in watch mode a regeneration that fails (invalid configuration,
\* unknown project type, failed extraction, unexpected error) does not end
\* the watch: the process keeps running, so that later file changes still
\* start regenerations.
C29_FailureKeepsWatching ==
    \A r \in RegenerationRuns : runs[r].pc = "exited" => alive

IsDisclaimer(w) ==
    \E e \in HeuristicExtractors : w = extractorWarnings(e)[1]

\* C18: a successful result of a heuristic extractor carries exactly one
\* best-effort disclaimer among its warnings, and the run of handleGenerate
\* that received it goes on to the end: the warning neither makes the result
\* a failure nor makes the run exit.
C18_OneDisclaimer ==
    \A r \in 1..Len(runs) :
        (runs[r].extractor \in HeuristicExtractors /\ runs[r].extracted = "success")
        => /\ Cardinality({ k \in 1..Len(runs[r].warnings) :
                              IsDisclaimer(runs[r].warnings[k]) }) = 1
           /\ runs[r].pc # "exited"

\* A run of the generate command with a heuristic extractor has reached its
\* end with the extractor's warning in hand.
C18_Witness ==
    \E r \in 1..Len(runs) :
        /\ gnCommand = "generate"
        /\ runs[r].extractor \in HeuristicExtractors
        /\ runs[r].pc = "done"
        /\ runs[r].warnings # <<>>

STAGES == <<"config", "detection", "extraction", "mock", "auth", "generators">>

StageNumber(stage) == CHOOSE i \in 1..Len(STAGES) : STAGES[i] = stage

HasStage(run, stage) == \E i \in 1..Len(run.stages) : run.stages[i] = stage

\* C26: the stages of one handleGenerate run start in the order config
\* validation, detection (unless a framework is given), extraction, mock-data
\* resolver, auth resolver, generators, one at a time; a config validation
\* error ends the run before detection and extraction, and after a failed
\* extraction no resolver and no generator runs.
C26_StageOrder ==
    \A r \in 1..Len(runs) :
        LET run == runs[r]
            given == config.framework # "" /\ config.framework # "auto"
        IN /\ run.stages # <<>> /\ run.stages[1] = "config"
           /\ \A i, j \in 1..Len(run.stages) :
                 i < j => StageNumber(run.stages[i]) < StageNumber(run.stages[j])
           /\ ~validateConfig(config) => run.stages = <<"config">> /\ run.pc = "exited"
           /\ HasStage(run, "detection") <=> (validateConfig(config) /\ ~given)
           /\ HasStage(run, "extraction") => (given \/ run.detected # "-")
           /\ (HasStage(run, "mock") \/ HasStage(run, "auth")
                 \/ HasStage(run, "generators"))
                => HasStage(run, "extraction") /\ run.extracted = "success"
           /\ run.extracted = "failure" =>
                 /\ run.pc = "exited"
                 /\ run.stages[Len(run.stages)] = "extraction"
           /\ HasStage(run, "auth") /\ config.mockData.enabled => HasStage(run, "mock")
           /\ run.pc = "done" => HasStage(run, "generators")

\* a run went through all six stages
C26_Witness == \E r \in 1..Len(runs) : runs[r].pc = "done" /\ runs[r].stages = STAGES

\* a run ended at the config validation, and one at a failed extraction
C26_Aborted ==
    \E r \in 1..Len(runs) :
        runs[r].pc = "exited" /\ runs[r].stages = <<"config">>

C26_FailedExtraction ==
    \E r \in 1..Len(runs) : runs[r].extracted = "failure"

\* the extractor each listed value of --framework stands for
ExtractorOf ==
    [f \in {"openapi", "fastapi", "flask", "spring", "aspnet"} |->
        IF f = "openapi" THEN "OpenApiExtractor"
        ELSE IF f = "fastapi" THEN "FastApiExtractor"
        ELSE IF f = "flask" THEN "FlaskExtractor"
        ELSE IF f = "spring" THEN "SpringBootExtractor"
        ELSE "AspNetExtractor"]

\* C9: for every framework value other than auto that the generate command
\* accepts, handleGenerate never calls detect and invokes the extract method
\* of the extractor for that framework.
C9_ManualFramework ==
    \A r \in 1..Len(runs) :
        (gnCommand = "generate" /\ gnOptions.framework \in DOMAIN ExtractorOf
         /\ validateConfig(config))
        => /\ ~runs[r].detectCalled
           /\ runs[r].extractor = ExtractorOf[gnOptions.framework]

\* C10: for every type detect can return other than unknown, the Django REST
\* heuristic included, selectExtractor returns an extractor and does not throw.
C10_DetectedTypeHasExtractor ==
    \A r \in 1..Len(runs) :
        runs[r].detected \notin {"-", UNKNOWN} => runs[r].extractor # "none"

\* Event n is the latest file event, and the timer it set has fired: a
\* regeneration has started since the event.
RegeneratedSince(n) == wtEvents = n /\ wtTimers = <<>>

\* C30: in watch mode, after any change, add or unlink event a regeneration
\* eventually starts later than that event: either a later event follows, to
\* which the same applies, or the timer the event set fires and starts a
\* run. The file events stop after MaxEvents, and every await returns.
C30_RegenerationFollows ==
    \A n \in 1..MaxEvents : (wtEvents = n) ~> (wtEvents > n \/ RegeneratedSince(n))

\* The same, for as long as the process is running.
RegenerationFollowsUnlessExit ==
    \A n \in 1..MaxEvents :
        (wtEvents = n) ~> (wtEvents > n \/ RegeneratedSince(n) \/ ~alive)

----------------------------------------------------------------------------
(* SpecExtract: extract() on every bounded directory or document *)

\* the routes a file of the model declares
FastApiRoutes ==
    { [method |-> "GET", path |-> <<SLASH, "a">>, routerName |-> "router",
       params |-> <<>>],
      [method |-> "POST", path |-> <<SLASH, "a", SLASH, "{id}">>, routerName |-> "app",
       params |-> <<[name |-> "body", type |-> "UserDto", attr |-> "none",
                     hasDefault |-> FALSE]>>] }

\* the *.py files of the model. Nothing of a file that cannot be read is
\* ever seen, so such a file has no content.
PyFiles ==
    [name : {"main", "users"}, readable : {TRUE},
     routers : {<<>>, <<[name |-> "router", prefix |-> <<SLASH, "api">>]>>},
     models : SUBSET {"UserDto"},
     routes : SeqsUpTo(FastApiRoutes, MaxRoutes)]
    \cup
    [name : {"main", "users"}, readable : {FALSE}, routers : {<<>>},
     models : {{}}, routes : {<<>>}]

OK200 == <<"2", "0", "0">>

\* requestBody: "none", "inline", or "ref" for {$ref: '#/components/requestBodies/..'}
Operations ==
    {NoOperation}
    \cup [present : {TRUE}, tags : {<<>>, <<"pets">>, <<"store">>, <<"">>},
          parameters : {<<>>}, hasResponses : {TRUE}, requestBody : {"none"},
          responses : {<<OK200>>}]

\* an operation with a request body, and one that has no `responses`
PostOperations ==
    Operations
    \cup [present : {TRUE}, tags : {<<>>, <<"pets">>}, parameters : {<<>>},
          hasResponses : {TRUE}, requestBody : {"inline", "ref"},
          responses : {<<OK200>>}]
    \cup [present : {TRUE}, tags : {<<>>}, parameters : {<<>>},
          hasResponses : {FALSE}, requestBody : {"none"}, responses : {<<>>}]

PathUrls == {<<SLASH, "a">>, <<SLASH, "b", SLASH>>}

PathItems ==
    [path : PathUrls, parameters : {<<>>}, get : Operations, post : PostOperations,
     put : {NoOperation}, delete : {NoOperation}, patch : {NoOperation},
     options : {NoOperation}, head : {NoOperation}, trace : {NoOperation}]

\* an untagged operation with one response, 200
PlainOperation ==
    [present |-> TRUE, tags |-> <<>>, parameters |-> <<>>, hasResponses |-> TRUE,
     requestBody |-> "none", responses |-> <<OK200>>]

\* one path item with any of the method keys and the key trace
MethodItems ==
    [path : {<<SLASH, "a">>}, parameters : {<<>>},
     get : {NoOperation, PlainOperation}, post : {NoOperation, PlainOperation},
     put : {NoOperation, PlainOperation}, delete : {NoOperation, PlainOperation},
     patch : {NoOperation, PlainOperation}, options : {NoOperation, PlainOperation},
     head : {NoOperation, PlainOperation}, trace : {NoOperation, PlainOperation}]

\* the keys of an object are distinct: no path twice in `paths`
DocumentPaths ==
    UNION { { ps \in [1..Len(urls) -> PathItems] :
                \A i \in 1..Len(urls) : ps[i].path = urls[i] }
            : urls \in { s \in SeqsUpTo(PathUrls, MaxPaths) : Distinct(s) } }

\* deref, bundle: whether SwaggerParser.dereference and SwaggerParser.bundle
\* return for the source
Documents ==
    [deref : BOOLEAN, bundle : BOOLEAN, paths : DocumentPaths,
     tags : {<<>>, <<"pets">>, <<"store", "pets">>}, securitySchemes : {<<>>}]
    \cup [deref : {TRUE}, bundle : {TRUE}, paths : { <<item>> : item \in MethodItems },
          tags : {<<>>}, securitySchemes : {<<>>}]

InitExtract ==
    /\ exExtractor \in {"fastapi", "openapi"}
    /\ \/ exExtractor = "fastapi" /\ exFiles \in SeqsUpTo(PyFiles, MaxFiles)
          /\ exDoc = NoDoc
       \/ exExtractor = "openapi" /\ exDoc \in Documents /\ exFiles = <<>>
    /\ exResult = NoResult
    /\ exInstance = FreshInstance
    /\ exBefore = FreshInstance
    /\ exCalls = 0
    /\ exConfig = NoConfig
    /\ IdleNormalize
    /\ IdleRoute
    /\ IdleConvert
    /\ IdleDetect
    /\ IdleCli

\* The first call of extract on the extractor object.
FastApiExtract ==
    /\ exExtractor = "fastapi"
    /\ exResult = NoResult
    /\ exResult' = fastApiExtractOn(exInstance, exFiles)
    /\ exInstance' = instanceAfterExtract(exInstance, exFiles)
    /\ exBefore' = exInstance
    /\ exCalls' = exCalls + 1
    /\ UNCHANGED <<exExtractor, exFiles, exDoc, exConfig, normVars, routeVars, convertVars,
                   detectVars, cliVars>>

\* OpenApiExtractor has no fields that extract writes.
OpenApiExtract ==
    /\ exExtractor = "openapi"
    /\ exResult = NoResult
    /\ exResult' = openApiExtract(exDoc, exConfig)
    /\ exCalls' = exCalls + 1
    /\ UNCHANGED <<exExtractor, exFiles, exDoc, exConfig, exInstance, exBefore, normVars,
                   routeVars, convertVars, detectVars, cliVars>>

NextExtract == FastApiExtract \/ OpenApiExtract

SpecExtract == InitExtract /\ [][NextExtract]_vars

ReadableFiles == SelectSeq(exFiles, LAMBDA f : f.readable)

\* C7: in a heuristic extractor's extract call a failure while reading one
\* source file is skipped at file granularity: the remaining files are still
\* scanned and the routes found in them are returned in a successful result.
C7_FileFailureSkipped ==
    (exExtractor = "fastapi" /\ exResult # NoResult
     /\ Len(scanRoutes(ReadableFiles)) > 0)
    => (exResult.success /\ exResult.endpointsFound = Len(scanRoutes(ReadableFiles)))

\* C8: every ExtractorResult with success = true carries a Project whose
\* groups list is non-empty and holds at least one Endpoint; an extraction
\* that finds no endpoint is reported as success = false with errors.
C8_SuccessHasEndpoints ==
    exResult # NoResult =>
        /\ exResult.success =>
              /\ exResult.hasProject
              /\ Len(exResult.groups) > 0
              /\ countEndpoints(exResult.groups) > 0
        /\ countEndpoints(exResult.groups) = 0 =>
              ~exResult.success /\ Len(exResult.errors) > 0

\* The endpoints of all groups, in group order.
RECURSIVE groupedEndpoints(_)
groupedEndpoints(groups) ==
    IF groups = <<>> THEN <<>>
    ELSE Head(groups).endpoints \o groupedEndpoints(Tail(groups))

\* The endpoints extract built from the routes or operations it discovered,
\* before grouping.
builtEndpoints ==
    IF exExtractor = "fastapi" THEN fastApiEndpoints(exBefore, exFiles)
    ELSE extractEndpoints(exDoc.paths)

Occurrences(s, e) == Cardinality({ i \in 1..Len(s) : s[i] = e })

SameMultiset(s, t) ==
    /\ Len(s) = Len(t)
    /\ \A i \in 1..Len(s) : Occurrences(s, s[i]) = Occurrences(t, s[i])

\* C12: in every successful result the endpoints held by the groups are, as a
\* multiset, exactly the endpoints built from the discovered routes: grouping
\* drops none and duplicates none, and endpointsFound is their number.
C12_GroupingPreservesEndpoints ==
    (exResult # NoResult /\ exResult.success)
    => /\ SameMultiset(groupedEndpoints(exResult.groups), builtEndpoints)
       /\ exResult.endpointsFound = Len(builtEndpoints)

\* A successful extraction in which grouping put two endpoints under one name.
C12_Witness ==
    /\ exResult # NoResult
    /\ exResult.success
    /\ \E j \in 1..Len(exResult.groups) : Len(exResult.groups[j].endpoints) >= 2

\* C16: OpenApiExtractor.extract tries dereferencing first and bundling only
\* when dereferencing fails; it returns success = false only when both fail,
\* and a document that fails dereferencing but bundles gives success = true
\* with a Project that is not empty.
C16_ParseFallback ==
    (exExtractor = "openapi" /\ exResult # NoResult)
    => /\ Head(parseSpec(exDoc).attempts) = "dereference"
       /\ Len(parseSpec(exDoc).attempts) > 1 <=> ~exDoc.deref
       /\ ~exResult.success => (~exDoc.deref /\ ~exDoc.bundle)
       /\ (~exDoc.deref /\ exDoc.bundle)
          => (exResult.success /\ exResult.hasProject /\ exResult.groups # <<>>)

IsFailure(result) ==
    /\ ~result.success
    /\ result.errors # <<>>
    /\ ~result.hasProject

\* C17: extract of a heuristic extractor returns success = false with errors
\* and no project when the directory holds no source file of its kind, and
\* also when every file was scanned and no route was found; in the second
\* case one of the errors is the hint naming what was looked for.
C17_NothingFoundFails ==
    (exExtractor = "fastapi" /\ exResult # NoResult)
    => /\ exFiles = <<>> => IsFailure(exResult)
       /\ (exFiles # <<>> /\ ReadableFiles = exFiles /\ scanRoutes(exFiles) = <<>>)
          => /\ IsFailure(exResult)
             /\ \E k \in 1..Len(exResult.errors) :
                    exResult.errors[k] = "Ipucu: decorator"

\* extract has scanned two readable files and found no route in either.
C17_Witness ==
    /\ exExtractor = "fastapi"
    /\ exResult # NoResult
    /\ Len(exFiles) = 2
    /\ ReadableFiles = exFiles
    /\ scanRoutes(exFiles) = <<>>
    /\ Len(exResult.errors) = 2

\* For each built endpoint, in discovery order, the name of the group it
\* belongs to: its first tag or 'default', the name made from its file.
groupKeys ==
    IF exExtractor = "fastapi"
    THEN [i \in 1..Len(scanRoutes(exFiles)) |->
            fileGroupName(scanRoutes(exFiles)[i].filePath)]
    ELSE [i \in 1..Len(builtEndpoints) |-> tagNameOf(builtEndpoints[i])]

\* the place of the first discovered endpoint that belongs to the group
FirstSeen(name) ==
    CHOOSE i \in 1..Len(groupKeys) :
        /\ groupKeys[i] = name
        /\ \A j \in 1..(i - 1) : groupKeys[j] # name

\* C20: the groups of a result have pairwise distinct names and stand in
\* first-seen order: one group comes before another exactly when its first
\* discovered endpoint comes before the other's, for the OpenAPI extractor
\* too when the document declares tags.
C20_FirstSeenOrder ==
    (exResult # NoResult /\ exResult.success)
    => \A a, b \in 1..Len(exResult.groups) :
        a < b => /\ exResult.groups[a].name # exResult.groups[b].name
                 /\ FirstSeen(exResult.groups[a].name)
                      < FirstSeen(exResult.groups[b].name)

\* the groups of a successful OpenAPI extraction
openApiGroups ==
    IF exExtractor = "openapi" /\ exResult # NoResult /\ exResult.success
    THEN exResult.groups ELSE <<>>

GroupNames(groups) == { groups[i].name : i \in 1..Len(groups) }

\* the endpoints the OpenAPI extractor builds from the document
openApiEndpoints ==
    IF exExtractor = "openapi" THEN extractEndpoints(exDoc.paths) ELSE <<>>

\* the first tags of the operations of the document
FirstTags ==
    { exDoc.paths[c[1]][METHODS[c[2]].key].tags[1] :
        c \in { d \in (1..Len(exDoc.paths)) \X (1..Len(METHODS)) :
                 /\ exDoc.paths[d[1]][METHODS[d[2]].key].present
                 /\ exDoc.paths[d[1]][METHODS[d[2]].key].tags # <<>> } }

\* the declared tags that no endpoint has as its first tag
UnusedTags == { exDoc.tags[i] : i \in 1..Len(exDoc.tags) } \ FirstTags

NoUnusedOrEmptyGroup ==
    /\ GroupNames(openApiGroups) \cap UnusedTags = {}
    /\ \A g \in 1..Len(openApiGroups) : openApiGroups[g].endpoints # <<>>

Combinations ==
    IF exExtractor # "openapi" THEN {}
    ELSE { c \in (1..Len(exDoc.paths)) \X (1..Len(METHODS)) :
             exDoc.paths[c[1]][METHODS[c[2]].key].present }

\* the endpoints of the result with this method and path
EndpointsOf(method, path) ==
    LET all == groupedEndpoints(openApiGroups)
    IN { i \in 1..Len(all) : all[i].method = method /\ all[i].path = path }

\* the document has one path with one operation, an untagged GET with the
\* one response 200, and can be parsed
OneGetDocument ==
    /\ exExtractor = "openapi"
    /\ exDoc.deref \/ exDoc.bundle
    /\ Len(exDoc.paths) = 1
    /\ Combinations = {<<1, 1>>}
    /\ exDoc.paths[1].get.tags = <<>>
    /\ exDoc.paths[1].get.hasResponses
    /\ exDoc.paths[1].get.responses = <<OK200>>

OneGetExtracted == exResult # NoResult /\ OneGetDocument

----------------------------------------------------------------------------
(* SpecAuth: OpenApiExtractor.extract on documents with security schemes *)

\* the names of the schemes, as sequences of characters
SchemeNames == {<<"a">>, <<"b">>, <<"2">>}

\* HTTP schemes by the name of the Authorization scheme, API keys by their
\* location and `name`, and OAuth2
SecuritySchemes ==
    [name : SchemeNames, type : {"http"}, scheme : {"bearer", "Bearer", "basic", "digest"},
     in : {"-"}, keyName : {""}]
    \cup [name : SchemeNames, type : {"apiKey"}, scheme : {"-"},
          in : {"header", "query", "cookie"}, keyName : {"", "X-Key"}]
    \cup [name : SchemeNames, type : {"oauth2"}, scheme : {"-"}, in : {"-"},
          keyName : {""}]

\* the keys of an object are distinct
SchemeObjects ==
    { ss \in SeqsUpTo(SecuritySchemes, MaxSchemes) :
        \A i, j \in 1..Len(ss) : i # j => ss[i].name # ss[j].name }

ConfigAuths ==
    { NoAuth,
      [type |-> "apiKey", keyName |-> "X-Config", keyLocation |-> "header",
       tokenPlaceholder |-> "{{config}}"] }

InitAuth ==
    /\ exExtractor = "openapi"
    /\ exFiles = <<>>
    /\ exDoc \in [deref : {TRUE}, bundle : {TRUE},
                   paths : {<<>>, <<[path |-> <<SLASH, "a">>, parameters |-> <<>>,
                                     get |-> PlainOperation, post |-> NoOperation,
                                     put |-> NoOperation, delete |-> NoOperation,
                                     patch |-> NoOperation, options |-> NoOperation,
                                     head |-> NoOperation, trace |-> NoOperation]>>},
                   tags : {<<>>}, securitySchemes : SchemeObjects]
    /\ exConfig \in [auth : ConfigAuths]
    /\ exResult = NoResult
    /\ exInstance = FreshInstance
    /\ exBefore = FreshInstance
    /\ exCalls = 0
    /\ IdleNormalize
    /\ IdleRoute
    /\ IdleConvert
    /\ IdleDetect
    /\ IdleCli

NextAuth == OpenApiExtract

SpecAuth == InitAuth /\ [][NextAuth]_vars

\* the kind of auth a scheme stands for: the name of an HTTP Authorization
\* scheme is case-insensitive
AuthKind(scheme) ==
    IF scheme.type = "http" /\ scheme.scheme \in {"bearer", "Bearer"} THEN "bearer"
    ELSE IF scheme.type = "apiKey" THEN "apiKey"
    ELSE IF scheme.type = "http" /\ scheme.scheme = "basic" THEN "basic"
    ELSE "none"

\* the places, in declaration order, of the schemes that are HTTP bearer,
\* apiKey or HTTP basic
Matching == { i \in 1..Len(exDoc.securitySchemes) :
                AuthKind(exDoc.securitySchemes[i]) # "none" }

\* C24: the auth of the Project comes from exactly one scheme, the first in
\* declaration order that is HTTP bearer, apiKey or HTTP basic; other schemes
\* are skipped and later matching ones ignored; when no scheme matches, the
\* auth of the config is kept.
C24_FirstMatchingScheme ==
    (exResult # NoResult /\ exResult.success)
    => IF Matching = {} THEN exResult.auth = exConfig.auth
       ELSE LET first == CHOOSE i \in Matching : \A j \in Matching : i <= j
                scheme == exDoc.securitySchemes[first]
            IN /\ exResult.auth.type = AuthKind(scheme)
               /\ exResult.auth.type = "apiKey" =>
                     /\ exResult.auth.keyName
                          = (IF scheme.keyName # "" THEN scheme.keyName ELSE "X-API-Key")
                     /\ exResult.auth.keyLocation
                          = (IF scheme.in = "query" THEN "query" ELSE "header")

----------------------------------------------------------------------------
(* SpecForward: FastApiExtractor.extract on files that refer to each other *)

\* the router definitions of one file: `router = APIRouter(prefix=...)`
RouterDefinitions ==
    { <<>>, <<[name |-> "router", prefix |-> <<SLASH, "api">>]>>,
      <<[name |-> "router", prefix |-> <<SLASH, "v2">>]>> }

ForwardFiles ==
    [name : {"main", "users"}, readable : {TRUE}, routers : RouterDefinitions,
     models : SUBSET {"UserDto"}, routes : SeqsUpTo(FastApiRoutes, MaxRoutes)]

\* a directory holds a file name once
InitForward ==
    /\ exExtractor = "fastapi"
    /\ exFiles \in { fs \in SeqsUpTo(ForwardFiles, MaxFiles) :
                        \A i, j \in 1..Len(fs) : i # j => fs[i].name # fs[j].name }
    /\ exDoc = NoDoc
    /\ exResult = NoResult
    /\ exInstance = FreshInstance
    /\ exBefore = FreshInstance
    /\ exCalls = 0
    /\ exConfig = NoConfig
    /\ IdleNormalize
    /\ IdleRoute
    /\ IdleConvert
    /\ IdleDetect
    /\ IdleCli

NextForward == FastApiExtract

SpecForward == InitForward /\ [][NextForward]_vars

\* the prefixes that file f declares for the router variable `name`
PrefixesIn(f, name) ==
    { exFiles[f].routers[d].prefix :
        d \in { x \in 1..Len(exFiles[f].routers) : exFiles[f].routers[x].name = name } }

\* the prefixes a route of file f may get: the one its own file declares for
\* its router variable, else the ones the other files declare for the name,
\* else none
PrefixesFor(f, name) ==
    IF PrefixesIn(f, name) # {} THEN PrefixesIn(f, name)
    ELSE IF \E g \in 1..Len(exFiles) : PrefixesIn(g, name) # {}
    THEN UNION { PrefixesIn(g, name) : g \in 1..Len(exFiles) }
    ELSE {<<>>}

\* the endpoint made from route k of file f: the files have distinct names, so
\* it is endpoint k of the group of the file
EndpointOfRoute(f, k) ==
    LET g == CHOOSE x \in 1..Len(exResult.groups) :
                exResult.groups[x].name = fileGroupName(exFiles[f].name)
    IN exResult.groups[g].endpoints[k]

Reverse(s) == [i \in 1..Len(s) |-> s[Len(s) + 1 - i]]

\* C27: the prefix and the request-body model of a route do not depend on
\* the order in which the files are scanned: a route scanned before the file
\* that defines its router or its model still gets that prefix and body, and
\* when several files define a router variable of one name with different
\* prefixes, each route gets the prefix of the router it was registered on.
C27_ScanOrderIndependent ==
    (exResult # NoResult /\ exResult.success)
    => /\ \A f \in 1..Len(exFiles) : \A k \in 1..Len(exFiles[f].routes) :
            LET route == exFiles[f].routes[k]
                endpoint == EndpointOfRoute(f, k)
            IN /\ \E prefix \in PrefixesFor(f, route.routerName) :
                     endpoint.path = normalizePath(prefix \o route.path)
               /\ \A i \in 1..Len(route.params) :
                     (route.method = "POST"
                        /\ \E g \in 1..Len(exFiles) : route.params[i].type \in exFiles[g].models)
                     => endpoint.requestBody = route.params[i].type
       /\ SameMultiset(groupedEndpoints(exResult.groups),
                       groupedEndpoints(fastApiExtract(Reverse(exFiles)).groups))

\* forward references: the first file has a route on a router and a route with
\* a model that only the second file defines
ForwardReference ==
    /\ exResult # NoResult
    /\ Len(exFiles) = 2
    /\ exFiles[1].routers = <<>> /\ exFiles[1].models = {}
    /\ exFiles[2].routers # <<>> /\ exFiles[2].models # {}
    /\ exFiles[1].routes # <<>>

----------------------------------------------------------------------------
(* SpecDjango: DjangoRestExtractor.extract on every bounded directory *)

\* a class statement: its name and what stands between the parentheses
DjangoClasses ==
    [name : {"UserViewSet"}, base : {"ModelViewSet", "ReadOnlyModelViewSet", "BaseViewSet"}]

\* a router.register(prefix, class) call
DjangoRegistrations ==
    [urlPrefix : {"users", "members"}, viewSet : {"UserViewSet", "OrderViewSet"}]

DjangoFiles ==
    [name : {"views"},
     classes : SeqsUpTo(DjangoClasses, MaxRoutes),
     registrations : SeqsUpTo(DjangoRegistrations, MaxRoutes),
     routes : {<<>>, <<[method |-> "GET", path |-> <<SLASH, "health">>,
                        viewName |-> "health"]>>}]

InitDjango ==
    /\ exExtractor = "django"
    /\ exFiles \in SeqsUpTo(DjangoFiles, MaxFiles)
    /\ exDoc = NoDoc
    /\ exResult = NoResult
    /\ exInstance = FreshInstance
    /\ exBefore = FreshInstance
    /\ exCalls = 0
    /\ exConfig = NoConfig
    /\ IdleNormalize
    /\ IdleRoute
    /\ IdleConvert
    /\ IdleDetect
    /\ IdleCli

DjangoExtract ==
    /\ exExtractor = "django"
    /\ exResult = NoResult
    /\ exResult' = djangoExtract(exFiles)
    /\ exCalls' = exCalls + 1
    /\ UNCHANGED <<exExtractor, exFiles, exDoc, exConfig, exInstance, exBefore, normVars,
                   routeVars, convertVars, detectVars, cliVars>>

NextDjango == DjangoExtract

SpecDjango == InitDjango /\ [][NextDjango]_vars

\* the endpoint with this method and path is in one of the groups
HasEndpoint(groups, method, path) ==
    \E j \in 1..Len(groups) : \E k \in 1..Len(groups[j].endpoints) :
        /\ groups[j].endpoints[k].method = method
        /\ groups[j].endpoints[k].path = path

\* C19: for every router.register call that names a class, the result holds
\* the six routes of the full set under the call's prefix: GET and POST on
\* /api/<prefix>, GET, PUT, PATCH and DELETE on /api/<prefix>/{id}, whatever
\* could be found out about the class.
C19_FullRouteSet ==
    (exExtractor = "django" /\ exResult # NoResult)
    => \A i \in 1..Len(exFiles) : \A k \in 1..Len(exFiles[i].registrations) :
        \A a \in 1..Len(VIEWSET_ACTIONS) :
            HasEndpoint(exResult.groups, VIEWSET_ACTIONS[a].method,
                        <<SLASH, "api", SLASH, exFiles[i].registrations[k].urlPrefix>>
                        \o VIEWSET_ACTIONS[a].pathSuffix)

----------------------------------------------------------------------------
(* SpecReuse: extract called again and again on one FastApiExtractor *)

\* One *.py file of the project, with at most one route in it.
ReuseFiles ==
    [name : {"main"}, readable : {TRUE},
     routers : {<<>>, <<[name |-> "router", prefix |-> <<SLASH, "api">>]>>},
     models : SUBSET {"UserDto"},
     routes : {<<>>} \cup { <<r>> : r \in FastApiRoutes }]
    \cup
    [name : {"main"}, readable : {FALSE}, routers : {<<>>}, models : {{}},
     routes : {<<>>}]

ReuseDirs == SeqsUpTo(ReuseFiles, MaxReuseFiles)

InitReuse ==
    /\ exExtractor = "fastapi"
    /\ exFiles \in ReuseDirs
    /\ exDoc = NoDoc
    /\ exResult = NoResult
    /\ exInstance = FreshInstance
    /\ exBefore = FreshInstance
    /\ exCalls = 0
    /\ exConfig = NoConfig
    /\ IdleNormalize
    /\ IdleRoute
    /\ IdleConvert
    /\ IdleDetect
    /\ IdleCli

\* A later call of extract on the same object; the directory holds `files` by
\* then, which may or may not be what it held at the call before.
FastApiExtractAgain ==
    /\ exExtractor = "fastapi"
    /\ exCalls >= 1
    /\ exCalls < MaxCalls
    /\ \E files \in ReuseDirs :
        /\ exFiles' = files
        /\ exResult' = fastApiExtractOn(exInstance, files)
        /\ exInstance' = instanceAfterExtract(exInstance, files)
    /\ exBefore' = exInstance
    /\ exCalls' = exCalls + 1
    /\ UNCHANGED <<exExtractor, exDoc, exConfig, normVars, routeVars, convertVars, detectVars,
                   cliVars>>

NextReuse == FastApiExtract \/ FastApiExtractAgain

SpecReuse == InitReuse /\ [][NextReuse]_vars

\* C11: whatever calls of extract an extractor object has served before, a
\* call returns what a newly constructed extractor returns for the same
\* directory: the routers and models collected by an earlier call play no part.
C11_NoStateLeak ==
    exCalls >= 1 => exResult = fastApiExtract(exFiles)

\* A second or later call that found routers and models left by the call
\* before, on a directory that defines neither and whose route names both.
C11_Witness ==
    /\ exCalls >= 2
    /\ exBefore.routers # <<>>
    /\ "UserDto" \in exBefore.models
    /\ exInstance = FreshInstance
    /\ exResult.success

====
